---- MODULE Spec2Model ----
(***************************************************************************)
(* TCG inventory manager: CSV import, manual add/edit, bulk operations and *)
(* background enrichment jobs with polled per-owner progress state.        *)
(*                                                                         *)
(* Three entry points of the repository are modelled side by side,         *)
(* selected by the variable `deployment`:                                  *)
(*   "working_app" : working_app.py + csv_import_helpers.py (background    *)
(*                   threads, progress_state / active_updates dicts, cards *)
(*                   table WITHOUT a uniqueness constraint);               *)
(*   "app"         : app.py (synchronous handlers, cards table with        *)
(*                   UNIQUE(card_name, set_code, collector_number,         *)
(*                   is_foil, condition));                                 *)
(*   "app_backup"  : app_backup.py (same table as app.py; add_card and the *)
(*                   background thread bulk_update of update_all_prices).  *)
(* Prices are integers (a unit of currency); each SQL statement is one     *)
(* atomic step.                                                            *)
(***************************************************************************)
EXTENDS Integers, Sequences, FiniteSets, TLC

VARIABLES deployment, cards, nextId, jobs, progress_state, active_updates,
          fetches, response, requests,
          price_alerts, now, price_monitor_thread,
          collection_templates, card_templates,
          client, call

vars == <<deployment, cards, nextId, jobs, progress_state, active_updates,
          fetches, response, requests,
          price_alerts, now, price_monitor_thread,
          collection_templates, card_templates,
          client, call>>

\* The inventory handlers and their threads (the first group of variables)
\* leave the second group alone: the price alerts with the clock and the
\* monitor thread, the collection templates, the lookup client, and the
\* function call under test.
others == <<price_alerts, now, price_monitor_thread,
            collection_templates, card_templates, client, call>>

(***************************************************************************)
(* Bounds                                                                  *)
(***************************************************************************)
MaxCards == 3        \* rows ever inserted into the cards table
MaxJobs == 2         \* background job threads ever started
MaxRows == 2         \* rows of an uploaded table
MaxRequests == 2     \* requests ever handled

Owners == {1, 2}
Deployments == {"working_app", "app", "app_backup"}
JobIds == 1..MaxJobs
CardIds == 1..MaxCards

(***************************************************************************)
(* Uploaded tables (pandas DataFrames)                                     *)
(***************************************************************************)
NaN == "<NaN>"                       \* a missing cell (pd.isna)

\* Column layouts of the uploads that are tried (header rows, in order).
ManaboxColumns == <<"Name", "Set code", "Foil", "Quantity", "Condition", "Purchase price">>
TitleColumns == <<"Quantity", "Title">>
NumericColumns == <<"Quantity">>

\* Columns whose pandas dtype is 'object' (textual values).
ObjectColumns == {"Name", "Title", "Set code", "Foil", "Condition"}

Range(f) == {f[i] : i \in DOMAIN f}

ManaboxRow(name, foil, quantity, price) ==
  [c \in Range(ManaboxColumns) |->
     CASE c = "Name" -> name
       [] c = "Set code" -> "LEA"
       [] c = "Foil" -> foil
       [] c = "Quantity" -> quantity
       [] c = "Condition" -> "near_mint"
       [] OTHER -> price]

\* A row with a name, and rows whose name is blank, the literal "nan", missing.
ManaboxRows ==
  { ManaboxRow("Lightning Bolt", "normal", "1", "1"),
    ManaboxRow(" ", "normal", "1", "0") }

NamelessRows ==
  { ManaboxRow("nan", "normal", "1", "0"),
    ManaboxRow(NaN, "normal", "1", "0") }

TitleRows == { [c \in Range(TitleColumns) |-> IF c = "Title" THEN "Opt" ELSE "1"] }

NumericRows == { [c \in Range(NumericColumns) |-> "1"] }

SeqsUpTo(S, n) == UNION { [1..k -> S] : k \in 1..n }

DataFrames ==
  { [columns |-> ManaboxColumns, rows |-> rs] : rs \in SeqsUpTo(ManaboxRows, MaxRows) }
  \cup { [columns |-> ManaboxColumns, rows |-> rs] : rs \in SeqsUpTo(NamelessRows, 1) }
  \cup { [columns |-> TitleColumns, rows |-> rs] : rs \in SeqsUpTo(TitleRows, 1) }
  \cup { [columns |-> NumericColumns, rows |-> rs] : rs \in SeqsUpTo(NumericRows, 1) }

(***************************************************************************)
(* String and number conversions of the import, tabulated on the cells     *)
(* that occur.                                                             *)
(***************************************************************************)
\* A conversion that leaves the blanks around a cell in place: what
\* str.strip() below excludes.
no_strip(s) == s

\* str.strip()
strip(s) == CASE s = " " -> ""
              [] s = "Foil " -> "Foil"
              [] s = "foil " -> "foil"
              [] OTHER -> s

\* str.lower()
lower(s) == CASE s = "Foil " -> "foil "
              [] s = "Foil" -> "foil"
              [] s = "False" -> "false"
              [] s = "True" -> "true"
              [] s = "YES" -> "yes"
              [] OTHER -> s

\* str.replace('_', ' ').title()
title(s) == CASE s = "near_mint" -> "Near Mint"
              [] OTHER -> s

\* int(cell), raising ValueError on a non-numeric cell
IntCells == {"1", "2", "0", "-1"}
int(s) == CASE s = "1" -> 1 [] s = "2" -> 2 [] s = "-1" -> 0 - 1 [] OTHER -> 0

\* float(cell)
FloatCells == {"0", "1", "2"}
float(s) == CASE s = "1" -> 1 [] s = "2" -> 2 [] OTHER -> 0

notna(cell) == cell # NaN

(***************************************************************************)
(* preprocess_csv_data: column mapping, name-column fallback, defaults.    *)
(* Returns [ok |-> FALSE] when it raises ValueError.                       *)
(***************************************************************************)
manabox_mapping(col) ==
  CASE col = "Name" -> "card_name"
    [] col = "Set code" -> "set_code"
    [] col = "Set name" -> "set_name"
    [] col = "Collector number" -> "collector_number"
    [] col = "Foil" -> "is_foil"
    [] col = "Quantity" -> "quantity"
    [] col = "Condition" -> "condition"
    [] col = "Language" -> "language"
    [] col = "Purchase price" -> "purchase_price"
    [] OTHER -> col

TargetColumns == {"card_name", "set_name", "set_code", "collector_number", "quantity",
                  "is_foil", "condition", "language", "purchase_price"}

\* Default of a column that the table lacks (df.get(col, default)).
ColumnDefault(t) ==
  CASE t = "quantity" -> "1"
    [] t = "is_foil" -> "False"
    [] t = "condition" -> "Near Mint"
    [] t = "language" -> "English"
    [] t = "purchase_price" -> "0"
    [] OTHER -> ""

\* The source columns that are renamed to target t.
SourceOf(columns, t) == {c \in Range(columns) : manabox_mapping(c) = t}

\* A fallback that takes the first column whatever its dtype: what the
\* dtype test of the fallback below excludes.
FallbackFirstColumn(columns) == IF columns = <<>> THEN 0 ELSE 1

\* The fallback name column: the first column whose dtype is 'object'
\* (0 when there is none: the for/else branch that raises).
FallbackNameColumn(columns) ==
  LET objs == {i \in DOMAIN columns : columns[i] \in ObjectColumns}
  IN  IF objs = {} THEN 0 ELSE CHOOSE i \in objs : \A j \in objs : i <= j

preprocess_csv_data(df) ==
  LET hasName == SourceOf(df.columns, "card_name") # {}
      fallback == FallbackNameColumn(df.columns)
      cell(row, t) ==
        IF SourceOf(df.columns, t) # {}
          THEN row[CHOOSE c \in SourceOf(df.columns, t) : TRUE]
        ELSE IF t = "card_name"
          THEN row[df.columns[fallback]]
        ELSE ColumnDefault(t)
  IN  IF ~hasName /\ fallback = 0
        THEN [ok |-> FALSE, rows |-> <<>>]
        ELSE [ok |-> TRUE,
              rows |-> [i \in 1..Len(df.rows) |->
                          [t \in TargetColumns |-> cell(df.rows[i], t)]]]

(***************************************************************************)
(* The cards table                                                         *)
(***************************************************************************)
identity_key(c) == <<c.card_name, c.set_code, c.collector_number, c.is_foil, c.condition>>

\* Per-row conversion of import_cards_with_progress: the record to insert.
\* valid = FALSE for the rows the import skips and counts as errors.
RowToCard(row, user_id) ==
  LET is_foil == IF notna(row["is_foil"])
                   THEN strip(lower(row["is_foil"])) \in {"foil", "true", "yes", "1"}
                   ELSE FALSE
      card_name == IF notna(row["card_name"]) THEN strip(row["card_name"]) ELSE ""
      condition_raw == IF notna(row["condition"]) THEN strip(row["condition"]) ELSE "near_mint"
      quantity == IF notna(row["quantity"]) /\ row["quantity"] \in IntCells
                    THEN int(row["quantity"]) ELSE 1
      purchase_price == IF notna(row["purchase_price"]) /\ row["purchase_price"] \in FloatCells
                          THEN float(row["purchase_price"]) ELSE 0
  IN  [valid |-> ~(card_name = "" \/ card_name = "nan"),
       card |-> [id |-> 0,
                 user_id |-> user_id,
                 card_name |-> card_name,
                 set_code |-> IF notna(row["set_code"]) THEN strip(row["set_code"]) ELSE "",
                 collector_number |-> IF notna(row["collector_number"])
                                        THEN strip(row["collector_number"]) ELSE "",
                 is_foil |-> is_foil,
                 condition |-> title(condition_raw),
                 quantity |-> quantity,
                 purchase_price |-> purchase_price,
                 current_price |-> 0,
                 price_change |-> 0,
                 total_value |-> 0]]

\* Whether the cards table was created with the UNIQUE identity constraint.
HasUniqueConstraint(d) == d \in {"app", "app_backup"}

\* INSERT OR REPLACE INTO cards: with the UNIQUE constraint the conflicting
\* row is deleted first; the new row always gets a fresh AUTOINCREMENT id.
InsertOrReplace(table, id, card, unique) ==
  LET conflicts == IF unique
                     THEN {c \in table : identity_key(c) = identity_key(card)}
                     ELSE {}
  IN  (table \ conflicts) \cup {[card EXCEPT !.id = id]}


\* The rows of the table, in id order, whose id is in ids
\* (SELECT * FROM cards WHERE id IN (...)).
RECURSIVE SelectByIds(_, _, _)
SelectByIds(table, ids, from) ==
  IF from >= nextId THEN <<>>
  ELSE LET hit == {c \in table : c.id = from /\ from \in ids}
       IN  (IF hit = {} THEN <<>> ELSE <<CHOOSE c \in hit : TRUE>>)
           \o SelectByIds(table, ids, from + 1)

OwnedIds(table, user_id) == {c.id : c \in {d \in table : d.user_id = user_id}}

(***************************************************************************)
(* The lookup service, as seen through fetch_scryfall_data_standalone: a   *)
(* result is {} (found = FALSE) or a dict of price fields, a price being   *)
(* None (0 here) or a number.                                              *)
(***************************************************************************)
LookupResults ==
  { [found |-> FALSE, usd |-> 0, usd_foil |-> 0],
    [found |-> TRUE, usd |-> 2, usd_foil |-> 3] }

\* float(card_data.get('usd_foil' if is_foil else 'usd', 0) or 0)
PriceOf(card_data, is_foil) == IF is_foil THEN card_data.usd_foil ELSE card_data.usd

\* The UPDATE of one enrichment step: prices recomputed from the row as it
\* was read when the job selected its cards (card), written by id.
EnrichUpdate(table, card, card_data) ==
  LET current_price == PriceOf(card_data, card.is_foil)
      total_value == current_price * card.quantity
      price_change == current_price - card.purchase_price
  IN  { IF c.id = card.id
          THEN [c EXCEPT !.current_price = current_price,
                         !.total_value = total_value,
                         !.price_change = price_change]
          ELSE c : c \in table }

(***************************************************************************)
(* Background jobs (threads) and the polled progress state                 *)
(***************************************************************************)
NoDataFrame == [columns |-> <<>>, rows |-> <<>>]

NoJob == [kind |-> "none", user_id |-> 0, pc |-> "idle", df |-> NoDataFrame,
          total |-> 0, rows |-> <<>>, idx |-> 0,
          imported_count |-> 0, error_count |-> 0, imported_card_ids |-> <<>>,
          card_ids |-> {}, cards |-> <<>>, i |-> 0, ncards |-> 0, updated_count |-> 0,
          uncommitted |-> 0]

NoProgress == [type |-> "none", phase |-> "", current |-> 0, total |-> 0,
               imported_count |-> 0, updated_count |-> 0]

NoResponse == [op |-> "none", user_id |-> 0, success |-> FALSE,
               imported_count |-> 0, error_count |-> 0,
               active |-> FALSE, latest_progress |-> NoProgress]

RefreshKinds == {"update_prices", "update_all_prices", "mass_update_prices"}

Running(j) == jobs[j].pc \notin {"idle", "done"}

\* The slot of the next thread to start.
FreeSlot == IF \E j \in JobIds : jobs[j].pc = "idle"
              THEN CHOOSE j \in JobIds : jobs[j].pc = "idle" /\ \A k \in JobIds : jobs[k].pc = "idle" => j <= k
              ELSE 0

RECURSIVE SumOver(_, _)
SumOver(f, S) == IF S = {} THEN 0
                 ELSE LET x == CHOOSE y \in S : TRUE IN f[x] + SumOver(f, S \ {x})

\* Rows that running imports may still insert.
PendingInserts ==
  SumOver([j \in JobIds |-> IF jobs[j].pc = "start" THEN Len(jobs[j].df.rows)
                            ELSE Len(jobs[j].rows)], JobIds)

RoomFor(n) == (nextId - 1) + PendingInserts + n <= MaxCards

\* The monitor thread before its first round, the lookup client before its
\* first call, and no function call.
NoMonitor == [pc |-> "idle", cards_with_alerts |-> <<>>, wake |-> 0]

NoClient == [pc |-> "idle", calls |-> 0, card_name |-> <<>>, set_code |-> "",
             collector_number |-> "", start |-> 0, http |-> <<>>,
             result |-> [returned |-> FALSE]]

NoCall == [fn |-> "none", args |-> <<>>, ret |-> <<>>]

Init ==
  /\ deployment \in Deployments
  /\ cards = {}
  /\ nextId = 1
  /\ jobs = [j \in JobIds |-> NoJob]
  /\ progress_state = [u \in Owners |-> NoProgress]
  /\ active_updates = [u \in Owners |-> FALSE]
  /\ fetches = {}
  /\ response = NoResponse
  /\ requests = 0
  /\ price_alerts = {}
  /\ now = 0
  /\ price_monitor_thread = NoMonitor
  /\ collection_templates = {}
  /\ card_templates = {}
  /\ client = NoClient
  /\ call = NoCall

(***************************************************************************)
(* working_app.py: import_csv and its thread background_csv_import         *)
(***************************************************************************)
import_csv(u, df) ==
  /\ requests < MaxRequests
  /\ requests' = requests + 1
  /\ deployment = "working_app"
  /\ Len(df.rows) > 0
  /\ FreeSlot # 0
  /\ RoomFor(Len(df.rows))
  /\ active_updates' = [active_updates EXCEPT ![u] = TRUE]
  /\ jobs' = [jobs EXCEPT ![FreeSlot] =
                [NoJob EXCEPT !.kind = "import", !.user_id = u, !.pc = "start",
                              !.df = df, !.total = Len(df.rows)]]
  /\ UNCHANGED <<others, deployment, cards, nextId, progress_state, fetches, response>>

\* progress 'start', then preprocess_csv_data (which may raise)
ImportStart(j) ==
  /\ jobs[j].kind = "import" /\ jobs[j].pc = "start"
  /\ LET pre == preprocess_csv_data(jobs[j].df)
     IN  /\ progress_state' = [progress_state EXCEPT ![jobs[j].user_id] =
                                 [NoProgress EXCEPT !.type = "start", !.phase = "preprocessing",
                                                    !.total = jobs[j].total]]
         /\ jobs' = [jobs EXCEPT ![j].df = NoDataFrame,
                                 ![j].rows = pre.rows,
                                 ![j].pc = IF pre.ok THEN "import" ELSE "failed"]
  /\ UNCHANGED <<others, deployment, cards, nextId, active_updates, fetches, response, requests>>

\* One iteration of the row loop, which import_cards_with_progress and
\* app.py's import_csv share statement for statement; ok = FALSE is an INSERT
\* that raises; tick: the loop writes progress ticks.
ImportRowStep(j, ok, tick) ==
  /\ jobs[j].kind = "import" /\ jobs[j].pc = "import" /\ jobs[j].rows # <<>>
  /\ LET job == jobs[j]
         conv == RowToCard(Head(job.rows), job.user_id)
         inserted == conv.valid /\ ok
     IN  /\ progress_state' =
              IF tick /\ job.idx % 10 = 0
                THEN [progress_state EXCEPT ![job.user_id] =
                        [NoProgress EXCEPT !.type = "progress", !.phase = "import",
                                           !.current = job.idx + 1, !.total = job.total]]
                ELSE progress_state
         /\ cards' = IF inserted
                       THEN InsertOrReplace(cards, nextId, conv.card, HasUniqueConstraint(deployment))
                       ELSE cards
         /\ nextId' = IF inserted THEN nextId + 1 ELSE nextId
         /\ jobs' = [jobs EXCEPT
                       ![j].rows = Tail(job.rows),
                       ![j].idx = job.idx + 1,
                       ![j].imported_count = IF inserted THEN @ + 1 ELSE @,
                       ![j].error_count = IF inserted THEN @ ELSE @ + 1,
                       ![j].imported_card_ids = IF inserted THEN Append(@, nextId) ELSE @]
  /\ UNCHANGED <<others, deployment, active_updates, fetches, response, requests>>

ImportRow(j, ok) ==
  /\ deployment = "working_app"
  /\ ImportRowStep(j, ok, TRUE)

\* End of the import loop: the phase tick and the SELECT of
\* update_card_prices_and_metadata_with_progress when ids were imported.
ImportFinish(j) ==
  /\ deployment = "working_app"
  /\ jobs[j].kind = "import" /\ jobs[j].pc = "import" /\ jobs[j].rows = <<>>
  /\ LET job == jobs[j]
         ids == Range(job.imported_card_ids)
         sel == SelectByIds(cards, ids, 1)
     IN  /\ progress_state' =
              IF ids # {}
                THEN [progress_state EXCEPT ![job.user_id] =
                        [NoProgress EXCEPT !.type = "progress", !.phase = "price_update",
                                           !.total = Len(job.imported_card_ids)]]
                ELSE progress_state
         /\ jobs' = [jobs EXCEPT ![j].pc = "enrich", ![j].card_ids = ids,
                                 ![j].cards = sel, ![j].ncards = Len(sel)]
  /\ UNCHANGED <<others, deployment, cards, nextId, active_updates, fetches, response, requests>>


\* The tick of the enrichment loop as an update in place of the dict that
\* progress_state already holds: only 'current' and 'total' are stored.
EnrichCardInPlace(j, card_data, ok) ==
  /\ deployment = "working_app"
  /\ jobs[j].pc = "enrich" /\ jobs[j].cards # <<>>
  /\ LET job == jobs[j]
         card == Head(job.cards)
     IN  /\ progress_state' = [progress_state EXCEPT ![job.user_id].current = job.i + 1,
                                                     ![job.user_id].total = job.ncards]
         /\ cards' = IF ok THEN EnrichUpdate(cards, card, card_data) ELSE cards
         /\ jobs' = [jobs EXCEPT ![j].cards = Tail(job.cards),
                                 ![j].i = job.i + 1,
                                 ![j].updated_count = IF ok THEN @ + 1 ELSE @]
  /\ UNCHANGED <<others, deployment, nextId, active_updates, fetches, response, requests>>

\* One iteration of the loop of update_card_prices_and_metadata_with_progress:
\* tick, lookup, UPDATE.  ok = FALSE is an iteration that raises before the
\* UPDATE took effect (logged, the loop goes on).
EnrichCard(j, card_data, ok) ==
  /\ deployment = "working_app"
  /\ jobs[j].pc = "enrich" /\ jobs[j].cards # <<>>
  /\ LET job == jobs[j]
         card == Head(job.cards)
     IN  /\ progress_state' = [progress_state EXCEPT ![job.user_id] =
                                 [NoProgress EXCEPT !.type = "progress", !.phase = "price_update",
                                                    !.current = job.i + 1, !.total = job.ncards]]
         /\ cards' = IF ok THEN EnrichUpdate(cards, card, card_data) ELSE cards
         /\ jobs' = [jobs EXCEPT ![j].cards = Tail(job.cards),
                                 ![j].i = job.i + 1,
                                 ![j].updated_count = IF ok THEN @ + 1 ELSE @]
  /\ UNCHANGED <<others, deployment, nextId, active_updates, fetches, response, requests>>

\* After the enrichment loop: the final commit, then the 'complete' state;
\* ok = FALSE is a commit that raises, caught by the thread's except branch,
\* which writes the 'error' state instead.
JobComplete(j, ok) ==
  /\ deployment = "working_app"
  /\ jobs[j].pc = "enrich" /\ jobs[j].cards = <<>>
  /\ LET job == jobs[j]
     IN  progress_state' = [progress_state EXCEPT ![job.user_id] =
           IF ok
             THEN [NoProgress EXCEPT !.type = "complete",
                                     !.imported_count = job.imported_count,
                                     !.updated_count = job.updated_count,
                                     !.total = job.total]
             ELSE [NoProgress EXCEPT !.type = "error"]]
  /\ jobs' = [jobs EXCEPT ![j].pc = "cleanup"]
  /\ UNCHANGED <<others, deployment, cards, nextId, active_updates, fetches, response, requests>>

\* A thread that dies on the exception without recording it: what the
\* except branch below excludes.
JobFailSilently(j) ==
  /\ jobs[j].pc = "failed"
  /\ jobs' = [jobs EXCEPT ![j].pc = "cleanup"]
  /\ UNCHANGED <<others, deployment, cards, nextId, progress_state, active_updates, fetches,
                 response, requests>>

\* The except branch of the thread after preprocess_csv_data raised.
JobFail(j) ==
  /\ jobs[j].pc = "failed"
  /\ progress_state' = [progress_state EXCEPT ![jobs[j].user_id] =
                          [NoProgress EXCEPT !.type = "error"]]
  /\ jobs' = [jobs EXCEPT ![j].pc = "cleanup"]
  /\ UNCHANGED <<others, deployment, cards, nextId, active_updates, fetches, response, requests>>

\* active_updates[user_id] = False, the thread's last statement.
JobCleanup(j) ==
  /\ jobs[j].pc = "cleanup"
  /\ active_updates' = [active_updates EXCEPT ![jobs[j].user_id] = FALSE]
  /\ jobs' = [jobs EXCEPT ![j] = [NoJob EXCEPT !.pc = "done"]]
  /\ UNCHANGED <<others, deployment, cards, nextId, progress_state, fetches, response, requests>>

\* progress_status: the poll.  It reads the owner's flag, then the dict that
\* progress_state holds for the owner (NoProgress where .get returns None),
\* and answers with both.
progress_status(u) ==
  /\ deployment = "working_app"
  /\ response' = [NoResponse EXCEPT !.op = "progress_status", !.user_id = u,
                                    !.active = active_updates[u],
                                    !.latest_progress = progress_state[u]]
  /\ UNCHANGED <<others, deployment, cards, nextId, jobs, progress_state, active_updates,
                 fetches, requests>>

(***************************************************************************)
(* working_app.py: update_prices, update_all_prices, mass_update_prices    *)
(***************************************************************************)
UpdatePricesLimit == 100

StartRefresh(kind, u, ids) ==
  /\ FreeSlot # 0
  /\ active_updates' = [active_updates EXCEPT ![u] = TRUE]
  /\ jobs' = [jobs EXCEPT ![FreeSlot] =
                [NoJob EXCEPT !.kind = kind, !.user_id = u, !.pc = "start",
                              !.card_ids = ids, !.total = Cardinality(ids)]]

\* The first n ids of a result set (LIMIT n, rows in id order).
Limit(ids, n) == {i \in ids : Cardinality({k \in ids : k < i}) < n}

\* SELECT id FROM cards WHERE user_id = ? LIMIT 100
update_prices(u) ==
  /\ requests < MaxRequests
  /\ requests' = requests + 1
  /\ deployment = "working_app"
  /\ OwnedIds(cards, u) # {}
  /\ StartRefresh("update_prices", u, Limit(OwnedIds(cards, u), UpdatePricesLimit))
  /\ UNCHANGED <<others, deployment, cards, nextId, progress_state, fetches, response>>

update_all_prices(u) ==
  /\ requests < MaxRequests
  /\ requests' = requests + 1
  /\ deployment = "working_app"
  /\ OwnedIds(cards, u) # {}
  /\ StartRefresh("update_all_prices", u, OwnedIds(cards, u))
  /\ UNCHANGED <<others, deployment, cards, nextId, progress_state, fetches, response>>

\* The ids come from the request; the handler starts the job on them as sent.
mass_update_prices(u, ids) ==
  /\ requests < MaxRequests
  /\ requests' = requests + 1
  /\ deployment = "working_app"
  /\ IF ids = {}
       THEN /\ response' = [NoResponse EXCEPT !.op = "mass_update_prices", !.user_id = u]
            /\ UNCHANGED <<jobs, active_updates>>
       ELSE /\ StartRefresh("mass_update_prices", u, ids)
            /\ response' = [NoResponse EXCEPT !.op = "mass_update_prices", !.user_id = u,
                                              !.success = TRUE]
  /\ UNCHANGED <<others, deployment, cards, nextId, progress_state, fetches>>

\* The thread of a refresh: progress 'start', active flag, SELECT by ids.
RefreshStart(j) ==
  /\ jobs[j].kind \in RefreshKinds /\ jobs[j].pc = "start"
  /\ LET job == jobs[j]
         sel == SelectByIds(cards, job.card_ids, 1)
     IN  /\ progress_state' = [progress_state EXCEPT ![job.user_id] =
                                 [NoProgress EXCEPT !.type = "start", !.total = job.total]]
         /\ active_updates' = [active_updates EXCEPT ![job.user_id] = TRUE]
         /\ jobs' = [jobs EXCEPT ![j].pc = "enrich", ![j].cards = sel, ![j].ncards = Len(sel)]
  /\ UNCHANGED <<others, deployment, cards, nextId, fetches, response, requests>>

(***************************************************************************)
(* working_app.py: add_card (with its fetch thread), edit_card, mass_delete*)
(***************************************************************************)
AddForms ==
  { [card_name |-> n, set_code |-> "LEA", collector_number |-> "", quantity |-> q,
     condition |-> "Near Mint", purchase_price |-> p, is_foil |-> FALSE]
    : n \in {"Lightning Bolt"}, q \in {1, 2}, p \in {0, 1} }

FormCard(form, u) ==
  [id |-> 0, user_id |-> u, card_name |-> form.card_name, set_code |-> form.set_code,
   collector_number |-> form.collector_number, is_foil |-> form.is_foil,
   condition |-> form.condition, quantity |-> form.quantity,
   purchase_price |-> form.purchase_price,
   current_price |-> 0, price_change |-> 0, total_value |-> 0]

add_card(u, form) ==
  /\ requests < MaxRequests
  /\ requests' = requests + 1
  /\ deployment = "working_app"
  /\ form.card_name # ""
  /\ LET new == FormCard(form, u)
         existing == {c \in cards : c.user_id = u /\ identity_key(c) = identity_key(new)}
     IN  IF existing # {}
           THEN \* fetchone(): the first matching row
                LET e == CHOOSE c \in existing : \A d \in existing : c.id <= d.id
                IN  /\ cards' = (cards \ {e}) \cup {[e EXCEPT !.quantity = @ + form.quantity]}
                    /\ UNCHANGED <<nextId, fetches>>
           ELSE /\ RoomFor(1)
                /\ cards' = cards \cup {[new EXCEPT !.id = nextId]}
                /\ nextId' = nextId + 1
                /\ fetches' = fetches \cup {[new EXCEPT !.id = nextId]}
  /\ UNCHANGED <<others, deployment, jobs, progress_state, active_updates, response>>

\* fetch_card_data_background: updates the new card by id, from the values
\* the closure captured, when the lookup returned data.
fetch_card_data_background(f, card_data) ==
  /\ f \in fetches
  /\ fetches' = fetches \ {f}
  /\ cards' = IF card_data.found THEN EnrichUpdate(cards, f, card_data) ELSE cards
  /\ UNCHANGED <<others, deployment, nextId, jobs, progress_state, active_updates, response, requests>>

EditForms ==
  { [card_name |-> "Lightning Bolt", condition |-> "Near Mint", quantity |-> q,
     purchase_price |-> p] : q \in {1, 2}, p \in {0, 1} }

edit_card(u, card_id, form) ==
  /\ requests < MaxRequests
  /\ requests' = requests + 1
  /\ deployment = "working_app"
  /\ \E c \in cards :
       /\ c.id = card_id /\ c.user_id = u
       /\ cards' = (cards \ {c}) \cup {[c EXCEPT !.card_name = form.card_name,
                                                 !.quantity = form.quantity,
                                                 !.condition = form.condition,
                                                 !.purchase_price = form.purchase_price]}
  /\ UNCHANGED <<others, deployment, nextId, jobs, progress_state, active_updates, fetches, response>>

IdLists == SUBSET CardIds

mass_delete(u, ids) ==
  /\ requests < MaxRequests
  /\ requests' = requests + 1
  /\ deployment = "working_app"
  /\ LET verified_ids == ids \cap OwnedIds(cards, u)
     IN  IF verified_ids = {}
           THEN /\ response' = [NoResponse EXCEPT !.op = "mass_delete", !.user_id = u]
                /\ UNCHANGED cards
           ELSE /\ cards' = {c \in cards : c.id \notin verified_ids}
                /\ response' = [NoResponse EXCEPT !.op = "mass_delete", !.user_id = u,
                                                  !.success = TRUE]
  /\ UNCHANGED <<others, deployment, nextId, jobs, progress_state, active_updates, fetches>>


(***************************************************************************)
(* app.py: the synchronous handlers.  A request that loops over rows or    *)
(* cards is a thread of the server like any other; its loop iterations are *)
(* steps, and it touches neither progress_state nor active_updates.        *)
(***************************************************************************)
\* import_csv up to the row loop: column mapping inline; without a name
\* column the request ends with a flash message.
app_import_csv(u, df) ==
  /\ requests < MaxRequests
  /\ requests' = requests + 1
  /\ deployment = "app"
  /\ Len(df.rows) > 0
  /\ LET pre == preprocess_csv_data(df)
     IN  IF ~pre.ok
           THEN /\ response' = [NoResponse EXCEPT !.op = "import_csv", !.user_id = u]
                /\ UNCHANGED jobs
           ELSE /\ FreeSlot # 0
                /\ RoomFor(Len(df.rows))
                /\ jobs' = [jobs EXCEPT ![FreeSlot] =
                              [NoJob EXCEPT !.kind = "import", !.user_id = u, !.pc = "import",
                                            !.rows = pre.rows, !.total = Len(df.rows)]]
                /\ UNCHANGED response
  /\ UNCHANGED <<others, deployment, cards, nextId, progress_state, active_updates, fetches>>

app_import_row(j, ok) ==
  /\ deployment = "app"
  /\ ImportRowStep(j, ok, FALSE)

\* commit, then update_card_prices_and_metadata(imported_card_ids): SELECT
app_import_finish(j) ==
  /\ deployment = "app"
  /\ jobs[j].kind = "import" /\ jobs[j].pc = "import" /\ jobs[j].rows = <<>>
  /\ LET ids == Range(jobs[j].imported_card_ids)
         sel == SelectByIds(cards, ids, 1)
     IN  jobs' = [jobs EXCEPT ![j].pc = "enrich", ![j].card_ids = ids,
                              ![j].cards = sel, ![j].ncards = Len(sel)]
  /\ UNCHANGED <<others, deployment, cards, nextId, progress_state, active_updates, fetches, response, requests>>

\* One iteration of the loop of update_card_prices_and_metadata.
update_card_prices_and_metadata(j, card_data, ok) ==
  /\ deployment = "app"
  /\ jobs[j].pc = "enrich" /\ jobs[j].cards # <<>>
  /\ cards' = IF ok THEN EnrichUpdate(cards, Head(jobs[j].cards), card_data) ELSE cards
  /\ jobs' = [jobs EXCEPT ![j].cards = Tail(@), ![j].i = @ + 1,
                          ![j].updated_count = IF ok THEN @ + 1 ELSE @]
  /\ UNCHANGED <<others, deployment, nextId, progress_state, active_updates, fetches, response, requests>>

\* The end of the request: the flash message / JSON body with its counts.
app_request_done(j) ==
  /\ deployment = "app"
  /\ jobs[j].pc = "enrich" /\ jobs[j].cards = <<>>
  /\ response' = [NoResponse EXCEPT !.op = IF jobs[j].kind = "import" THEN "import_csv"
                                           ELSE "mass_update_prices",
                                    !.user_id = jobs[j].user_id,
                                    !.success = TRUE,
                                    !.imported_count = jobs[j].imported_count,
                                    !.error_count = jobs[j].error_count]
  /\ jobs' = [jobs EXCEPT ![j] = [NoJob EXCEPT !.pc = "done"]]
  /\ UNCHANGED <<others, deployment, cards, nextId, progress_state, active_updates, fetches, requests>>

\* add_card of app.py and app_backup.py: lookup, plain INSERT (IntegrityError
\* on an existing key: the card is not added), then
\* update_card_prices_and_metadata([card_id]).
InsertThenUpdate(u, form, first_data, card_data) ==
  /\ requests < MaxRequests
  /\ requests' = requests + 1
  /\ LET price == PriceOf(first_data, form.is_foil)
         new == [FormCard(form, u) EXCEPT !.id = nextId,
                                          !.current_price = price,
                                          !.total_value = price * form.quantity,
                                          !.price_change = price - form.purchase_price]
     IN  IF \E c \in cards : identity_key(c) = identity_key(new)
           THEN UNCHANGED <<cards, nextId>>
           ELSE /\ RoomFor(1)
                /\ cards' = EnrichUpdate(cards \cup {new}, new, card_data)
                /\ nextId' = nextId + 1
  /\ UNCHANGED <<others, deployment, jobs, progress_state, active_updates, fetches, response>>

app_add_card(u, form, first_data, card_data) ==
  /\ deployment = "app"
  /\ InsertThenUpdate(u, form, first_data, card_data)

\* edit_card: no ownership check; total value and price change recomputed.
app_edit_card(card_id, form) ==
  /\ requests < MaxRequests
  /\ requests' = requests + 1
  /\ deployment = "app"
  /\ \E c \in cards :
       /\ c.id = card_id
       /\ cards' = (cards \ {c}) \cup
                     {[c EXCEPT !.quantity = form.quantity,
                                !.condition = form.condition,
                                !.purchase_price = form.purchase_price,
                                !.total_value = c.current_price * form.quantity,
                                !.price_change = c.current_price - form.purchase_price]}
  /\ UNCHANGED <<others, deployment, nextId, jobs, progress_state, active_updates, fetches, response>>

\* mass_update_prices: refused unless every listed id is the caller's.
app_mass_update_prices(u, ids) ==
  /\ requests < MaxRequests
  /\ requests' = requests + 1
  /\ deployment = "app"
  /\ IF ids = {} \/ ~(ids \subseteq OwnedIds(cards, u))
       THEN /\ response' = [NoResponse EXCEPT !.op = "mass_update_prices", !.user_id = u]
            /\ UNCHANGED jobs
       ELSE /\ FreeSlot # 0
            /\ LET sel == SelectByIds(cards, ids, 1)
               IN  jobs' = [jobs EXCEPT ![FreeSlot] =
                             [NoJob EXCEPT !.kind = "mass_update_prices", !.user_id = u,
                                           !.pc = "enrich", !.card_ids = ids,
                                           !.total = Cardinality(ids),
                                           !.cards = sel, !.ncards = Len(sel)]]
            /\ UNCHANGED response
  /\ UNCHANGED <<others, deployment, cards, nextId, progress_state, active_updates, fetches>>

\* mass_delete: DELETE ... WHERE id IN (...) AND user_id = ?
app_mass_delete(u, ids) ==
  /\ requests < MaxRequests
  /\ requests' = requests + 1
  /\ deployment = "app"
  /\ LET user_cards == ids \cap OwnedIds(cards, u)
     IN  IF user_cards = {}
           THEN /\ response' = [NoResponse EXCEPT !.op = "mass_delete", !.user_id = u]
                /\ UNCHANGED cards
           ELSE /\ cards' = {c \in cards : ~(c.id \in ids /\ c.user_id = u)}
                /\ response' = [NoResponse EXCEPT !.op = "mass_delete", !.user_id = u,
                                                  !.success = TRUE]
  /\ UNCHANGED <<others, deployment, nextId, jobs, progress_state, active_updates, fetches>>

(***************************************************************************)
(* app_backup.py: add_card, and update_all_prices with its thread          *)
(* bulk_update                                                             *)
(***************************************************************************)
backup_add_card(u, form, first_data, card_data) ==
  /\ deployment = "app_backup"
  /\ InsertThenUpdate(u, form, first_data, card_data)

\* The handler: active flag, thread start.
backup_update_all_prices(u) ==
  /\ requests < MaxRequests
  /\ requests' = requests + 1
  /\ deployment = "app_backup"
  /\ FreeSlot # 0
  /\ active_updates' = [active_updates EXCEPT ![u] = TRUE]
  /\ jobs' = [jobs EXCEPT ![FreeSlot] =
                [NoJob EXCEPT !.kind = "bulk_update", !.user_id = u, !.pc = "start"]]
  /\ UNCHANGED <<others, deployment, cards, nextId, progress_state, fetches, response>>

\* bulk_update: SELECT * FROM cards WHERE user_id = ?, then the 'start' state.
bulk_update_start(j) ==
  /\ jobs[j].kind = "bulk_update" /\ jobs[j].pc = "start"
  /\ LET job == jobs[j]
         sel == SelectByIds(cards, OwnedIds(cards, job.user_id), 1)
     IN  /\ progress_state' = [progress_state EXCEPT ![job.user_id] =
                                 [NoProgress EXCEPT !.type = "start", !.total = Len(sel)]]
         /\ jobs' = [jobs EXCEPT ![j].pc = "enrich", ![j].cards = sel,
                                 ![j].ncards = Len(sel), ![j].total = Len(sel)]
  /\ UNCHANGED <<others, deployment, cards, nextId, active_updates, fetches, response, requests>>

\* One iteration of bulk_update's loop: the tick, then the UPDATE, or, when
\* the iteration raises (ok = FALSE), a state of type 'error'; the loop goes on.
bulk_update_card(j, card_data, ok) ==
  /\ jobs[j].kind = "bulk_update" /\ jobs[j].pc = "enrich" /\ jobs[j].cards # <<>>
  /\ LET job == jobs[j]
         card == Head(job.cards)
     IN  /\ progress_state' = [progress_state EXCEPT ![job.user_id] =
               IF ok
                 THEN [NoProgress EXCEPT !.type = "progress", !.current = job.i + 1,
                                         !.total = job.ncards,
                                         !.updated_count = job.updated_count]
                 ELSE [NoProgress EXCEPT !.type = "error"]]
         /\ cards' = IF ok THEN EnrichUpdate(cards, card, card_data) ELSE cards
         /\ jobs' = [jobs EXCEPT ![j].cards = Tail(job.cards),
                                 ![j].i = job.i + 1,
                                 ![j].updated_count = IF ok THEN @ + 1 ELSE @]
  /\ UNCHANGED <<others, deployment, nextId, active_updates, fetches, response, requests>>

\* After the loop: commit, the 'complete' state.
bulk_update_complete(j) ==
  /\ jobs[j].kind = "bulk_update" /\ jobs[j].pc = "enrich" /\ jobs[j].cards = <<>>
  /\ progress_state' = [progress_state EXCEPT ![jobs[j].user_id] =
                          [NoProgress EXCEPT !.type = "complete",
                                             !.updated_count = jobs[j].updated_count,
                                             !.total = jobs[j].total]]
  /\ jobs' = [jobs EXCEPT ![j].pc = "cleanup"]
  /\ UNCHANGED <<others, deployment, cards, nextId, active_updates, fetches, response, requests>>

(***************************************************************************)
(* Specification                                                           *)
(***************************************************************************)
JobStep(j) ==
  \/ ImportStart(j)
  \/ \E ok \in BOOLEAN : ImportRow(j, ok)
  \/ ImportFinish(j)
  \/ RefreshStart(j)
  \/ \E card_data \in LookupResults, ok \in BOOLEAN : EnrichCard(j, card_data, ok)
  \/ \E ok \in BOOLEAN : JobComplete(j, ok)
  \/ JobFail(j)
  \/ bulk_update_start(j)
  \/ \E card_data \in LookupResults, ok \in BOOLEAN : bulk_update_card(j, card_data, ok)
  \/ bulk_update_complete(j)
  \/ JobCleanup(j)

RequestStep(j) ==
  \/ \E ok \in BOOLEAN : app_import_row(j, ok)
  \/ app_import_finish(j)
  \/ \E card_data \in LookupResults, ok \in BOOLEAN : update_card_prices_and_metadata(j, card_data, ok)
  \/ app_request_done(j)

Next ==
  \/ \E u \in Owners, df \in DataFrames : import_csv(u, df)
  \/ \E u \in Owners : update_prices(u)
  \/ \E u \in Owners : update_all_prices(u)
  \/ \E u \in Owners, ids \in IdLists : mass_update_prices(u, ids)
  \/ \E u \in Owners, form \in AddForms : add_card(u, form)
  \/ \E f \in fetches, card_data \in LookupResults : fetch_card_data_background(f, card_data)
  \/ \E u \in Owners, id \in CardIds, form \in EditForms : edit_card(u, id, form)
  \/ \E u \in Owners, ids \in IdLists : mass_delete(u, ids)
  \/ \E j \in JobIds : JobStep(j)
  \/ \E u \in Owners, df \in DataFrames : app_import_csv(u, df)
  \/ \E u \in Owners, form \in AddForms, d1 \in LookupResults, d2 \in LookupResults :
       app_add_card(u, form, d1, d2)
  \/ \E id \in CardIds, form \in EditForms : app_edit_card(id, form)
  \/ \E u \in Owners, ids \in IdLists : app_mass_update_prices(u, ids)
  \/ \E u \in Owners, ids \in IdLists : app_mass_delete(u, ids)
  \/ \E j \in JobIds : RequestStep(j)
  \/ \E u \in Owners, form \in AddForms, d1 \in LookupResults, d2 \in LookupResults :
       backup_add_card(u, form, d1, d2)
  \/ \E u \in Owners : backup_update_all_prices(u)

Spec == Init /\ [][Next]_vars

TypeOK ==
  /\ deployment \in Deployments
  /\ nextId \in 1..(MaxCards + 1)
  /\ \A c \in cards : c.id \in 1..(nextId - 1)
  /\ \A c, d \in cards : c.id = d.id => c = d

\* The variables of the inventory handlers, left alone by what follows
\* unless an action says otherwise.
inventory == <<deployment, cards, nextId, jobs, progress_state, active_updates,
               fetches, response, requests>>

(***************************************************************************)
(* app.py: price alerts.  update_prices (a request looping over the        *)
(* caller's cards that lack metadata) and background_price_monitor (a      *)
(* thread looping over every card with a threshold) both compare the       *)
(* looked-up price with the stored one and insert into price_alerts.       *)
(* Time is in hours; prices are integers; the percentage comparison        *)
(* abs((new - old) / old * 100) >= threshold is made without division.     *)
(***************************************************************************)
MaxAlerts == 3       \* rows ever inserted into price_alerts
DayHours == 24       \* datetime('now', '-1 day')
MonitorSleepHours == 1   \* time.sleep(3600)

\* The instants at which the clock is read.
Instants == {0, 1, 25, 26}

\* A land (no mana cost, so update_prices always selects it) with alert
\* threshold t (percent), priced at 100.
AlertCard(id, t) ==
  [id |-> id, user_id |-> 1, card_name |-> "Island", set_code |-> "LEA",
   collector_number |-> "", is_foil |-> FALSE, condition |-> "Near Mint",
   quantity |-> 1, purchase_price |-> 100, current_price |-> 100,
   price_change |-> 0, total_value |-> 100, price_alert_threshold |-> t,
   rarity |-> "Common", colors |-> "Colorless", mana_cost |-> "", card_type |-> "Land"]

\* What fetch_scryfall_data_standalone of app.py returns for the land: the
\* zero-valued dict of a failed lookup, or its data at one of two prices.
AlertLookups ==
  { [usd |-> 0, usd_foil |-> 0, rarity |-> "", colors |-> "", mana_cost |-> "",
     card_type |-> ""] }
  \cup { [usd |-> p, usd_foil |-> p, rarity |-> "Common", colors |-> "Colorless",
          mana_cost |-> "", card_type |-> "Land"] : p \in {100, 110} }

Abs(x) == IF x < 0 THEN 0 - x ELSE x

\* abs(price_change_percent) >= card['price_alert_threshold']
Breach(card, new_price) ==
  Abs(new_price - card.current_price) * 100 >= card.price_alert_threshold * card.current_price

\* INSERT INTO price_alerts: triggered_at DEFAULT CURRENT_TIMESTAMP, is_read 0
InsertAlert(alerts, card) ==
  alerts \cup {[id |-> Cardinality(alerts) + 1, card_id |-> card.id,
                threshold_value |-> card.price_alert_threshold,
                triggered_at |-> now, is_read |-> FALSE]}

\* SELECT id FROM price_alerts WHERE card_id = ? AND triggered_at > datetime('now', '-1 day')
recent_alert(alerts, card) ==
  {a \in alerts : a.card_id = card.id /\ a.triggered_at > now - DayHours}

\* The rows of a table as a sequence ordered by total_value DESC (rows of
\* equal value in id order).
RECURSIVE OrderByTotalValueDesc(_)
OrderByTotalValueDesc(table) ==
  IF table = {} THEN <<>>
  ELSE LET first == CHOOSE c \in table :
                      \A d \in table : \/ c.total_value > d.total_value
                                       \/ c.total_value = d.total_value /\ c.id <= d.id
       IN  <<first>> \o OrderByTotalValueDesc(table \ {first})

MissingMetadataLimit == 200

\* The first n rows of a result (LIMIT n).
Take(rows, n) == IF Len(rows) <= n THEN rows ELSE SubSeq(rows, 1, n)

MissingMetadata(c) ==
  c.rarity = "" \/ c.colors = "" \/ c.mana_cost = "" \/ c.card_type = ""

\* UPDATE cards SET current_price, total_value, price_change [, metadata]
\* WHERE id = ?, computed from the row as it was selected.
PriceUpdate(table, card, current_price, metadata) ==
  { IF c.id = card.id
      THEN [c EXCEPT !.current_price = current_price,
                     !.total_value = current_price * card.quantity,
                     !.price_change = current_price - card.purchase_price,
                     !.rarity = IF metadata = <<>> THEN @ ELSE metadata[1].rarity,
                     !.colors = IF metadata = <<>> THEN @ ELSE metadata[1].colors,
                     !.mana_cost = IF metadata = <<>> THEN @ ELSE metadata[1].mana_cost,
                     !.card_type = IF metadata = <<>> THEN @ ELSE metadata[1].card_type]
      ELSE c : c \in table }

\* The clock moves on.
Tick(t) ==
  /\ t \in Instants /\ t > now
  /\ now' = t
  /\ UNCHANGED <<inventory, price_alerts, price_monitor_thread,
                 collection_templates, card_templates, client, call>>

\* update_prices of app.py up to its loop: the SELECT of the caller's cards
\* that lack metadata.
app_update_prices(u) ==
  /\ requests < MaxRequests
  /\ requests' = requests + 1
  /\ deployment = "app"
  /\ OwnedIds(cards, u) # {}
  /\ FreeSlot # 0
  /\ jobs' = [jobs EXCEPT ![FreeSlot] =
                [NoJob EXCEPT !.kind = "app_update_prices", !.user_id = u, !.pc = "update_prices",
                              !.cards = Take(OrderByTotalValueDesc(
                                               {c \in cards : c.user_id = u /\ MissingMetadata(c)}),
                                             MissingMetadataLimit)]]
  /\ UNCHANGED <<others, deployment, cards, nextId, progress_state, active_updates,
                 fetches, response>>

\* One iteration of its loop: lookup, alert check (no look at the alerts
\* that exist), UPDATE.
app_update_prices_card(j, card_data) ==
  /\ jobs[j].kind = "app_update_prices" /\ jobs[j].cards # <<>>
  /\ LET card == Head(jobs[j].cards)
         current_price == PriceOf(card_data, card.is_foil)
         alert == /\ card.price_alert_threshold > 0 /\ card.current_price # 0
                  /\ Breach(card, current_price)
     IN  /\ alert => Cardinality(price_alerts) < MaxAlerts
         /\ price_alerts' = IF alert THEN InsertAlert(price_alerts, card) ELSE price_alerts
         /\ cards' = PriceUpdate(cards, card, current_price, <<card_data>>)
  /\ jobs' = [jobs EXCEPT ![j].cards = Tail(@), ![j].updated_count = @ + 1]
  /\ UNCHANGED <<deployment, nextId, progress_state, active_updates, fetches, response,
                 requests, now, price_monitor_thread, collection_templates, card_templates,
                 client, call>>

\* commit and the flash message
app_update_prices_done(j) ==
  /\ jobs[j].kind = "app_update_prices" /\ jobs[j].cards = <<>>
  /\ jobs' = [jobs EXCEPT ![j] = [NoJob EXCEPT !.pc = "done"]]
  /\ response' = [NoResponse EXCEPT !.op = "update_prices", !.user_id = jobs[j].user_id,
                                    !.success = TRUE]
  /\ UNCHANGED <<others, deployment, cards, nextId, progress_state, active_updates,
                 fetches, requests>>

\* background_price_monitor, the head of a round: SELECT * FROM cards WHERE
\* price_alert_threshold > 0.
monitor_select ==
  /\ price_monitor_thread.pc = "idle" /\ now >= price_monitor_thread.wake
  /\ price_monitor_thread' =
       [price_monitor_thread EXCEPT
          !.pc = "loop",
          !.cards_with_alerts =
             SelectByIds(cards, {c.id : c \in {d \in cards : d.price_alert_threshold > 0}}, 1)]
  /\ UNCHANGED <<inventory, price_alerts, now, collection_templates, card_templates,
                 client, call>>

\* One iteration of its loop: prices, alert check with the look at the
\* alerts of the last day, UPDATE of the price fields.
monitor_card(prices) ==
  /\ price_monitor_thread.pc = "loop" /\ price_monitor_thread.cards_with_alerts # <<>>
  /\ LET card == Head(price_monitor_thread.cards_with_alerts)
         new_price == PriceOf(prices, card.is_foil)
         alert == /\ card.current_price > 0
                  /\ Breach(card, new_price)
                  /\ recent_alert(price_alerts, card) = {}
     IN  /\ alert => Cardinality(price_alerts) < MaxAlerts
         /\ price_alerts' = IF alert THEN InsertAlert(price_alerts, card) ELSE price_alerts
         /\ cards' = PriceUpdate(cards, card, new_price, <<>>)
  /\ price_monitor_thread' = [price_monitor_thread EXCEPT !.cards_with_alerts = Tail(@)]
  /\ UNCHANGED <<deployment, nextId, jobs, progress_state, active_updates, fetches, response,
                 requests, now, collection_templates, card_templates, client, call>>

\* The end of a round: commit, then time.sleep(3600).
monitor_sleep ==
  /\ price_monitor_thread.pc = "loop" /\ price_monitor_thread.cards_with_alerts = <<>>
  /\ price_monitor_thread' = [price_monitor_thread EXCEPT !.pc = "idle",
                                                          !.wake = now + MonitorSleepHours]
  /\ UNCHANGED <<inventory, price_alerts, now, collection_templates, card_templates,
                 client, call>>

\* mark_alert_read: UPDATE price_alerts SET is_read = 1 WHERE id = ?
mark_alert_read(alert_id) ==
  /\ \E a \in price_alerts :
       /\ a.id = alert_id /\ ~a.is_read
       /\ price_alerts' = (price_alerts \ {a}) \cup {[a EXCEPT !.is_read = TRUE]}
  /\ UNCHANGED <<inventory, now, price_monitor_thread, collection_templates, card_templates,
                 client, call>>

AlertInit ==
  /\ deployment = "app"
  /\ cards = {AlertCard(1, 5)}
  /\ nextId = 2
  /\ jobs = [j \in JobIds |-> NoJob]
  /\ progress_state = [u \in Owners |-> NoProgress]
  /\ active_updates = [u \in Owners |-> FALSE]
  /\ fetches = {}
  /\ response = NoResponse
  /\ requests = 0
  /\ price_alerts = {}
  /\ now = 0
  /\ price_monitor_thread = NoMonitor
  /\ collection_templates = {}
  /\ card_templates = {}
  /\ client = NoClient
  /\ call = NoCall

AlertNext ==
  \/ \E t \in Instants : Tick(t)
  \/ \E u \in Owners : app_update_prices(u)
  \/ \E j \in JobIds, card_data \in AlertLookups : app_update_prices_card(j, card_data)
  \/ \E j \in JobIds : app_update_prices_done(j)
  \/ monitor_select
  \/ \E prices \in AlertLookups : monitor_card(prices)
  \/ monitor_sleep
  \/ \E a \in 1..MaxAlerts : mark_alert_read(a)

AlertSpec == AlertInit /\ [][AlertNext]_vars

(***************************************************************************)
(* Card names as the lookup code compares them.  A name is a sequence of   *)
(* tokens: words, the space " ", the face separator "//" and the           *)
(* parenthesised printing annotations.                                     *)
(***************************************************************************)
\* str.lower(), token by token
lower_token(t) ==
  CASE t = "Opt" -> "opt"
    [] t = "Bolt" -> "bolt"
    [] t = "(Borderless)" -> "(borderless)"
    [] OTHER -> t

lower_name(s) == [i \in DOMAIN s |-> lower_token(s[i])]

\* str.strip()
RECURSIVE strip_name(_)
strip_name(s) ==
  IF s = <<>> THEN s
  ELSE IF Head(s) = " " THEN strip_name(Tail(s))
  ELSE IF s[Len(s)] = " " THEN strip_name(SubSeq(s, 1, Len(s) - 1))
  ELSE s

\* str.replace(old, ''): every occurrence of old found from left to right,
\* in one pass.
RECURSIVE replace(_, _)
replace(s, old) ==
  IF Len(s) < Len(old) THEN s
  ELSE IF SubSeq(s, 1, Len(old)) = old
    THEN replace(SubSeq(s, Len(old) + 1, Len(s)), old)
  ELSE <<Head(s)>> \o replace(Tail(s), old)

\* str.split('//')[0]
first_part(s) ==
  LET seps == {i \in DOMAIN s : s[i] = "//"}
  IN  IF seps = {} THEN s
      ELSE SubSeq(s, 1, (CHOOSE i \in seps : \A k \in seps : i <= k) - 1)

\* The annotations of cards_match, each with its leading space.
variants ==
  << <<" ", "(borderless)">>, <<" ", "(showcase)">>, <<" ", "(extended art)">>,
     <<" ", "(retro frame)">>, <<" ", "(full art)">>, <<" ", "(alternate art)">>,
     <<" ", "(promo)">>, <<" ", "(foil etched)">> >>

\* A check that accepts every pair of names.
any_match(name1, name2) == TRUE

cards_match(name1, name2) ==
  LET n1 == lower_name(strip_name(name1))
      n2 == lower_name(strip_name(name2))
  IN  \/ n1 = n2
      \/ \E v \in DOMAIN variants : replace(n1, variants[v]) = replace(n2, variants[v])
      \/ /\ "//" \in Range(n1) \/ "//" \in Range(n2)
         /\ strip_name(first_part(n1)) = strip_name(first_part(n2))

(***************************************************************************)
(* extract_card_data: the result dict made from a card object of the       *)
(* service.  A dict is a record; a missing key is a missing field.  Prices *)
(* are integers, None being 0 (callers read them with `or 0`).  Of the     *)
(* result the price, image and metadata fields are kept (not the market    *)
(* URL).                                                                   *)
(***************************************************************************)
\* dict.get(key, default)
Get(d, key, default) == IF key \in DOMAIN d THEN d[key] ELSE default

EmptyDict == [k \in {} |-> 0]

\* JSON null
Null == [null |-> TRUE]

IsNull(v) == DOMAIN v = {"null"}

\* str.title() of a rarity
title_rarity(s) ==
  CASE s = "common" -> "Common"
    [] s = "rare" -> "Rare"
    [] OTHER -> s

\* An exception raised by the function, in place of its value.
Raised == [raised |-> TRUE]

IsRaised(v) == DOMAIN v = {"raised"}

color_map(c) ==
  CASE c = "W" -> "White"
    [] c = "U" -> "Blue"
    [] c = "B" -> "Black"
    [] c = "R" -> "Red"
    [] c = "G" -> "Green"
    [] OTHER -> "Other"

\* app.py: the color category of a color list
color_category(colors) ==
  IF colors = <<>> THEN "Colorless"
  ELSE IF Len(colors) = 1 THEN color_map(colors[1])
  ELSE "Multicolor"

\* The color lists of the card objects that are tried.
ColorLists ==
  { <<>>, <<"W">>, <<"U">>, <<"B">>, <<"R">>, <<"G">>, <<"W", "U">>, <<"B", "G">>,
    <<"W", "U", "B", "R", "G">> }

\* working_app.py: ','.join(colors), tabulated on those lists
join(colors) ==
  CASE colors = <<>> -> ""
    [] Len(colors) = 1 -> colors[1]
    [] colors = <<"W", "U">> -> "W,U"
    [] colors = <<"B", "G">> -> "B,G"
    [] OTHER -> "W,U,B,R,G"

\* extract_card_data of app.py; data.get('prices', {}).get(...) raises
\* AttributeError when prices is null.
app_extract_card_data(data) ==
  LET prices == Get(data, "prices", EmptyDict)
  IN  IF IsNull(prices) THEN Raised
      ELSE [usd |-> Get(prices, "usd", 0),
            usd_foil |-> Get(prices, "usd_foil", 0),
            rarity |-> title_rarity(Get(data, "rarity", "")),
            colors |-> color_category(Get(data, "colors", <<>>)),
            mana_cost |-> Get(data, "mana_cost", ""),
            mana_value |-> Get(data, "cmc", 0),
            card_type |-> Get(data, "type_line", "")]

\* extract_card_data of working_app.py: its own try/except returns {} on any
\* exception.  The image is the top-level one when the object has
\* image_uris, otherwise the first face's, and the back image is read in
\* that second case only; mana cost and type line fall back to the first
\* face when they are empty; the prices are the top-level ones.
extract_card_data(data) ==
  LET prices == Get(data, "prices", EmptyDict)
      card_faces == Get(data, "card_faces", <<>>)
      image_url ==
        IF "image_uris" \in DOMAIN data THEN Get(data.image_uris, "normal", "")
        ELSE IF Len(card_faces) > 0 /\ "image_uris" \in DOMAIN card_faces[1]
          THEN Get(card_faces[1].image_uris, "normal", "")
        ELSE ""
      image_url_back ==
        IF /\ "image_uris" \notin DOMAIN data
           /\ Len(card_faces) > 1
           /\ "image_uris" \in DOMAIN card_faces[2]
          THEN Get(card_faces[2].image_uris, "normal", "")
        ELSE ""
      mana_cost == Get(data, "mana_cost", "")
      card_type == Get(data, "type_line", "")
  IN  IF IsNull(prices) THEN EmptyDict
      ELSE [usd |-> Get(prices, "usd", 0),
            usd_foil |-> Get(prices, "usd_foil", 0),
            image_url |-> image_url,
            image_url_back |-> image_url_back,
            rarity |-> title_rarity(Get(data, "rarity", "")),
            colors |-> join(Get(data, "colors", <<>>)),
            mana_cost |-> IF mana_cost = "" /\ Len(card_faces) > 0
                            THEN Get(card_faces[1], "mana_cost", "") ELSE mana_cost,
            mana_value |-> Get(data, "mana_value", 0),
            card_type |-> IF card_type = "" /\ Len(card_faces) > 0
                            THEN Get(card_faces[1], "type_line", "") ELSE card_type]

(***************************************************************************)
(* fetch_scryfall_data_standalone: the lookup client.  One task calls it   *)
(* up to MaxCalls times; client.http is the task's trace of requests sent  *)
(* and delays slept; each request with what follows it up to the next      *)
(* request or the return is one step.                                      *)
(***************************************************************************)
MaxCalls == 2        \* lookups the task makes

CardObject(name) ==
  [object |-> "card", name |-> name, prices |-> [usd |-> 2, usd_foil |-> 3],
   colors |-> <<"U">>, rarity |-> "common", mana_cost |-> "{U}", cmc |-> 1,
   type_line |-> "Instant"]

\* A body that is not JSON (response.json() raises), an object without the
\* card fields, a card whose prices field is null, the error object.
InvalidJson == [invalid |-> TRUE]

MissingFields == [object |-> "card"]

NullPrices(name) == [object |-> "card", name |-> name, prices |-> Null]

ErrorObject == [object |-> "error"]

IsInvalid(body) == "invalid" \in DOMAIN body

Exception == [kind |-> "exception", status_code |-> 0, body |-> ErrorObject]

Response(status_code, body) == [kind |-> "response", status_code |-> status_code, body |-> body]

\* What a request to the card endpoints (app.py) can come to.
CardOutcomes ==
  { Exception, Response(404, ErrorObject), Response(200, InvalidJson),
    Response(200, MissingFields), Response(200, NullPrices(<<"Opt">>)),
    Response(200, CardObject(<<"Opt">>)), Response(200, CardObject(<<"Bolt">>)) }

\* What a request to the search endpoint (working_app.py) can come to.
SearchOutcomes ==
  { Exception, Response(404, ErrorObject), Response(200, InvalidJson),
    Response(200, [object |-> "list"]),
    Response(200, [object |-> "list", total_cards |-> 0]),
    Response(200, [object |-> "list", total_cards |-> 1]),
    Response(200, [object |-> "list", total_cards |-> 1, data |-> <<MissingFields>>]),
    Response(200, [object |-> "list", total_cards |-> 1, data |-> <<NullPrices(<<"Opt">>)>>]),
    Response(200, [object |-> "list", total_cards |-> 1, data |-> <<CardObject(<<"Opt">>)>>]) }

QueryNames == { <<"opt">>, <<"Opt", " ", "(borderless)">> }

\* The dict app.py returns on a failure.
ZeroResult ==
  [usd |-> 0, usd_foil |-> 0, rarity |-> "", colors |-> "", mana_cost |-> "",
   mana_value |-> 0, card_type |-> ""]

\* No card in a search response.
NoMatch == [nomatch |-> TRUE]

IsNoMatch(v) == DOMAIN v = {"nomatch"}

\* The trace of a request: the GET, then the sleep, which an exception raised
\* by the GET skips.
Sent(request, out) ==
  IF out.kind = "exception" THEN <<request>> ELSE <<request, "sleep">>

Returned(value) == [returned |-> TRUE, value |-> value]

\* The call: arguments bound, first request chosen.
fetch_scryfall_data_standalone(card_name, set_code, collector_number) ==
  /\ client.pc \in {"idle", "returned"}
  /\ client.calls < MaxCalls
  /\ client' = [client EXCEPT
                  !.pc = IF deployment = "app"
                           THEN IF collector_number # "" /\ set_code # "" THEN "exact" ELSE "named"
                           ELSE "search",
                  !.calls = @ + 1,
                  !.card_name = card_name,
                  !.set_code = set_code,
                  !.collector_number = collector_number,
                  !.start = Len(client.http),
                  !.result = [returned |-> FALSE]]
  /\ UNCHANGED <<inventory, price_alerts, now, price_monitor_thread, collection_templates,
                 card_templates, call>>

\* app.py: the request to /cards/{set}/{number} in its own try block; its
\* result is returned when the status is 200 and the names match, and every
\* exception of the block is swallowed.
app_exact_print(out) ==
  /\ deployment = "app" /\ client.pc = "exact"
  /\ LET data == out.body
         value == IF out.kind = "response" /\ out.status_code = 200 /\ ~IsInvalid(data)
                    THEN IF cards_match(client.card_name, Get(data, "name", <<>>))
                           THEN app_extract_card_data(data)
                           ELSE NoMatch
                    ELSE NoMatch
         accepted == ~IsNoMatch(value) /\ ~IsRaised(value)
     IN  client' = [client EXCEPT
                      !.http = @ \o Sent("GET exact", out),
                      !.pc = IF accepted THEN "returned" ELSE "named",
                      !.result = IF accepted THEN Returned(value) ELSE @]
  /\ UNCHANGED <<inventory, price_alerts, now, price_monitor_thread, collection_templates,
                 card_templates, call>>

\* app.py: the request to /cards/named?fuzzy=..., then the return; the outer
\* except returns the zero-valued dict.
app_named_search(out) ==
  /\ deployment = "app" /\ client.pc = "named"
  /\ LET data == out.body
         value == IF out.kind = "exception" THEN Raised
                  ELSE IF out.status_code = 200
                    THEN IF IsInvalid(data) THEN Raised ELSE app_extract_card_data(data)
                  ELSE ZeroResult
     IN  client' = [client EXCEPT
                      !.http = @ \o Sent("GET named", out),
                      !.pc = "returned",
                      !.result = Returned(IF IsRaised(value) THEN ZeroResult ELSE value)]
  /\ UNCHANGED <<inventory, price_alerts, now, price_monitor_thread, collection_templates,
                 card_templates, call>>

\* working_app.py: what a search response yields: the data of its first
\* card, no match, or an exception.
SearchValue(out) ==
  LET data == out.body
  IN  IF out.kind = "exception" THEN Raised
      ELSE IF out.status_code # 200 THEN NoMatch
      ELSE IF IsInvalid(data) THEN Raised
      ELSE IF Get(data, "total_cards", 0) > 0
        THEN IF "data" \in DOMAIN data THEN extract_card_data(data.data[1]) ELSE Raised
      ELSE NoMatch

\* working_app.py: the search with set and collector number in the query.
search(out) ==
  /\ deployment = "working_app" /\ client.pc = "search"
  /\ LET value == SearchValue(out)
         again == IsNoMatch(value) /\ (client.set_code # "" \/ client.collector_number # "")
     IN  client' = [client EXCEPT
                      !.http = @ \o Sent("GET search", out),
                      !.pc = IF again THEN "fallback" ELSE "returned",
                      !.result = IF again THEN @
                                 ELSE Returned(IF IsRaised(value) \/ IsNoMatch(value)
                                                 THEN EmptyDict ELSE value)]
  /\ UNCHANGED <<inventory, price_alerts, now, price_monitor_thread, collection_templates,
                 card_templates, call>>

\* working_app.py: the fallback search by name alone.
fallback_search(out) ==
  /\ deployment = "working_app" /\ client.pc = "fallback"
  /\ LET value == SearchValue(out)
     IN  client' = [client EXCEPT
                      !.http = @ \o Sent("GET fallback", out),
                      !.pc = "returned",
                      !.result = Returned(IF IsRaised(value) \/ IsNoMatch(value)
                                            THEN EmptyDict ELSE value)]
  /\ UNCHANGED <<inventory, price_alerts, now, price_monitor_thread, collection_templates,
                 card_templates, call>>

ClientInit ==
  /\ deployment \in {"app", "working_app"}
  /\ cards = {}
  /\ nextId = 1
  /\ jobs = [j \in JobIds |-> NoJob]
  /\ progress_state = [u \in Owners |-> NoProgress]
  /\ active_updates = [u \in Owners |-> FALSE]
  /\ fetches = {}
  /\ response = NoResponse
  /\ requests = 0
  /\ price_alerts = {}
  /\ now = 0
  /\ price_monitor_thread = NoMonitor
  /\ collection_templates = {}
  /\ card_templates = {}
  /\ client = NoClient
  /\ call = NoCall

ClientNext ==
  \/ \E card_name \in QueryNames, set_code \in {"", "LEA"}, collector_number \in {"", "1"} :
       fetch_scryfall_data_standalone(card_name, set_code, collector_number)
  \/ \E out \in CardOutcomes : app_exact_print(out)
  \/ \E out \in CardOutcomes : app_named_search(out)
  \/ \E out \in SearchOutcomes : search(out)
  \/ \E out \in SearchOutcomes : fallback_search(out)

ClientSpec == ClientInit /\ [][ClientNext]_vars

(***************************************************************************)
(* The pure functions, each applied once to arguments drawn from the sets  *)
(* below: call holds the function's name, its arguments and, once it has   *)
(* returned, its value.                                                    *)
(***************************************************************************)
Call(fn, args) == [fn |-> fn, args |-> args, ret |-> <<>>]

\* Names: a word, annotations, a second face, trailing blanks.
NameWords == { <<"opt">>, <<"Opt">>, <<"bolt">> }

NameAnnotations ==
  { <<>>, <<" ", "(borderless)">>, <<" ", "(showcase)">>,
    <<" ", "(Borderless)", " ", "(promo)">> }

NameFaces == { <<>>, <<" ", "//", " ", "bolt">>, <<" ", "//", " ", "opt">> }

Names ==
  { word \o annotation \o face \o blank :
      word \in NameWords, annotation \in NameAnnotations, face \in NameFaces,
      blank \in {<<>>, <<" ">>} }

apply_cards_match ==
  /\ call.fn = "cards_match" /\ call.ret = <<>>
  /\ call' = [call EXCEPT !.ret = <<cards_match(call.args[1], call.args[2])>>]
  /\ UNCHANGED <<inventory, price_alerts, now, price_monitor_thread, collection_templates,
                 card_templates, client>>

\* Card objects with each of the color lists.
ColoredCards == { [CardObject(<<"Opt">>) EXCEPT !.colors = colors] : colors \in ColorLists }

apply_app_extract_card_data ==
  /\ call.fn = "app_extract_card_data" /\ call.ret = <<>>
  /\ call' = [call EXCEPT !.ret = <<app_extract_card_data(call.args[1])>>]
  /\ UNCHANGED <<inventory, price_alerts, now, price_monitor_thread, collection_templates,
                 card_templates, client>>

\* Card objects of each shape: with or without top-level images, mana cost,
\* type line and price, with no face, one face or two faces, the faces with
\* or without an image, each face with its own price, mana cost and type
\* line.
Face(n, image) ==
  LET fields == [prices |-> [usd |-> 4 + n], mana_cost |-> IF n = 1 THEN "{R}" ELSE "{G}",
                 type_line |-> IF n = 1 THEN "Creature" ELSE "Land"]
  IN  IF image THEN [f \in DOMAIN fields \cup {"image_uris"} |->
                       IF f = "image_uris"
                         THEN [normal |-> IF n = 1 THEN "front.jpg" ELSE "back.jpg"]
                         ELSE fields[f]]
      ELSE fields

FaceLists ==
  { <<>> } \cup { <<Face(1, i1)>> : i1 \in BOOLEAN }
           \cup { <<Face(1, i1), Face(2, i2)>> : i1 \in BOOLEAN, i2 \in BOOLEAN }

FacedCards ==
  { LET fields == [object |-> "card", name |-> <<"Opt">>, colors |-> <<"U">>,
                   rarity |-> "common", prices |-> [usd |-> usd, usd_foil |-> 3],
                   mana_cost |-> top[1], type_line |-> top[2], card_faces |-> card_faces]
    IN  IF image = "none" THEN fields
        ELSE [f \in DOMAIN fields \cup {"image_uris"} |->
                IF f = "image_uris" THEN [normal |-> image] ELSE fields[f]] :
      usd \in {0, 2}, top \in { <<"", "">>, <<"{U}", "Instant">> },
      image \in {"none", "", "top.jpg"}, card_faces \in FaceLists }

apply_extract_card_data ==
  /\ call.fn = "extract_card_data" /\ call.ret = <<>>
  /\ call' = [call EXCEPT !.ret = <<extract_card_data(call.args[1])>>]
  /\ UNCHANGED <<inventory, price_alerts, now, price_monitor_thread, collection_templates,
                 card_templates, client>>

\* One-row uploads with each of the foil cells, and one without a foil
\* column.
FoilCells == {"foil", "Foil ", "true", "True", "YES", "yes", "1", "1.0", "normal", "False", NaN}

FoilFrames ==
  { [columns |-> ManaboxColumns, rows |-> <<ManaboxRow("Lightning Bolt", foil, "1", "1")>>] :
      foil \in FoilCells }
  \cup { [columns |-> TitleColumns, rows |-> <<row>>] : row \in TitleRows }

\* preprocess_csv_data, then the conversion of the row by the import loop.
apply_RowToCard ==
  /\ call.fn = "RowToCard" /\ call.ret = <<>>
  /\ call' = [call EXCEPT
                !.ret = <<RowToCard(preprocess_csv_data(call.args[1]).rows[1], call.args[2]).card>>]
  /\ UNCHANGED <<inventory, price_alerts, now, price_monitor_thread, collection_templates,
                 card_templates, client>>

(***************************************************************************)
(* fix_mana_values.py.  A mana cost is a sequence of characters: braces,   *)
(* digits, letters of either case, "/" and blanks.                         *)
(***************************************************************************)
MaxSymbols == 3      \* symbols of a mana cost

Digits == {"0", "1", "2", "3"}

\* str.upper(), character by character
upper_char(c) ==
  CASE c = "w" -> "W"
    [] c = "x" -> "X"
    [] c = "s" -> "S"
    [] OTHER -> c

upper(s) == [i \in DOMAIN s |-> upper_char(s[i])]

\* str.isdigit(): not empty and digits only
isdigit(s) == s # <<>> /\ \A i \in DOMAIN s : s[i] \in Digits

digit(c) == CASE c = "0" -> 0 [] c = "1" -> 1 [] c = "2" -> 2 [] c = "3" -> 3

\* int() of a string of digits
RECURSIVE int_digits(_)
int_digits(s) ==
  IF s = <<>> THEN 0
  ELSE 10 * int_digits(SubSeq(s, 1, Len(s) - 1)) + digit(s[Len(s)])

\* re.findall(r'\{([^}]+)\}', s): from the left, an opening brace, one or
\* more characters other than the closing brace (an opening brace among
\* them), the closing brace; the search goes on behind a match, and one
\* character further where there is none.
RECURSIVE findall(_)
findall(s) ==
  IF s = <<>> THEN <<>>
  ELSE IF Head(s) # "{" THEN findall(Tail(s))
  ELSE LET closes == {j \in 2..Len(s) : s[j] = "}"}
       IN  IF closes = {} THEN findall(Tail(s))
           ELSE LET j == CHOOSE k \in closes : \A l \in closes : k <= l
                IN  IF j = 2 THEN findall(Tail(s))
                    ELSE <<SubSeq(s, 2, j - 1)>> \o findall(SubSeq(s, j + 1, Len(s)))

\* str.split('/')
RECURSIVE split(_)
split(s) ==
  LET seps == {i \in DOMAIN s : s[i] = "/"}
  IN  IF seps = {} THEN <<s>>
      ELSE LET i == CHOOSE k \in seps : \A l \in seps : k <= l
           IN  <<SubSeq(s, 1, i - 1)>> \o split(SubSeq(s, i + 1, Len(s)))

\* '/P' in symbol
has_phyrexian(s) == \E i \in 1..(Len(s) - 1) : s[i] = "/" /\ s[i + 1] = "P"

ColorOrColorless == { <<"W">>, <<"U">>, <<"B">>, <<"R">>, <<"G">>, <<"C">> }

\* sum(costs), in the place of max(costs)
sum(costs) == SumOver(costs, DOMAIN costs)

\* max(costs)
max(costs) == CHOOSE m \in {costs[i] : i \in DOMAIN costs} : \A i \in DOMAIN costs : costs[i] <= m

\* The costs list of a hybrid symbol: a part that is no number, no color,
\* not C and not P appends nothing.
RECURSIVE hybrid_costs(_)
hybrid_costs(parts) ==
  IF parts = <<>> THEN <<>>
  ELSE LET part == Head(parts)
       IN  (IF isdigit(part) THEN <<int_digits(part)>>
            ELSE IF part \in ColorOrColorless THEN <<1>>
            ELSE IF part = <<"P">> THEN <<1>>
            ELSE <<>>) \o hybrid_costs(Tail(parts))

\* What one symbol adds to total_cmc; a symbol of no branch adds nothing.
\* The '/P' branch stands behind the '/' branch, as in the source.
symbol_cmc(symbol) ==
  IF \E i \in DOMAIN symbol : symbol[i] = "/"
    THEN LET costs == hybrid_costs(split(symbol))
         IN  IF costs # <<>> THEN max(costs) ELSE 1
  ELSE IF has_phyrexian(symbol)
    THEN IF replace(symbol, <<"/", "P">>) \in ColorOrColorless \ { <<"C">> } THEN 1 ELSE 0
  ELSE IF isdigit(symbol) THEN int_digits(symbol)
  ELSE IF symbol \in { <<"X">>, <<"Y">>, <<"Z">> } THEN 0
  ELSE IF symbol \in ColorOrColorless THEN 1
  ELSE IF symbol = <<"S">> THEN 1
  ELSE 0

RECURSIVE total_cmc(_)
total_cmc(mana_symbols) ==
  IF mana_symbols = <<>> THEN 0
  ELSE symbol_cmc(Head(mana_symbols)) + total_cmc(Tail(mana_symbols))

calculate_mana_value(mana_cost) ==
  IF mana_cost = <<>> \/ strip_name(mana_cost) = <<>> THEN 0
  ELSE total_cmc(findall(upper(strip_name(mana_cost))))

\* Symbols: numbers, colors in either case, colorless, snow, variables,
\* hybrids of a number and a color, of two colors, of a color and P, of two
\* variables, of a number and a variable, and the tap symbol.
ManaSymbols ==
  { <<"2">>, <<"1", "0">>, <<"0">>, <<"W">>, <<"w">>, <<"B">>, <<"C">>, <<"S">>, <<"X">>, <<"Y">>,
    <<"2", "/", "W">>, <<"W", "/", "U">>, <<"W", "/", "P">>, <<"X", "/", "Y">>, <<"2", "/", "X">>,
    <<"T">> }

RECURSIVE SymbolLists(_)
SymbolLists(n) ==
  IF n = 0 THEN { <<>> }
  ELSE SymbolLists(n - 1)
         \cup { <<symbol>> \o symbols : symbol \in ManaSymbols, symbols \in SymbolLists(n - 1) }

RECURSIVE cost_string(_)
cost_string(symbols) ==
  IF symbols = <<>> THEN <<>>
  ELSE <<"{">> \o Head(symbols) \o <<"}">> \o cost_string(Tail(symbols))

\* Costs of up to MaxSymbols symbols, bare or between blanks, and strings
\* whose braces do not pair.
ManaCosts ==
  { blank \o cost_string(symbols) \o blank :
      blank \in { <<>>, <<" ">> }, symbols \in SymbolLists(MaxSymbols) }
  \cup { <<"{", "}">>, <<"{", "2">>, <<"2">>, <<"{", "}", "{", "W", "}">>,
         <<"{", "{", "2", "}">>, <<"{", "2", "}", "W", "{", "W", "}">> }

apply_calculate_mana_value ==
  /\ call.fn = "calculate_mana_value" /\ call.ret = <<>>
  /\ call' = [call EXCEPT !.ret = <<calculate_mana_value(call.args[1])>>]
  /\ UNCHANGED <<inventory, price_alerts, now, price_monitor_thread, collection_templates,
                 card_templates, client>>

(***************************************************************************)
(* fix_color_display.py: format_colors_wubrg and the loop body of          *)
(* update_color_display.  A colors string is a sequence of characters.     *)
(***************************************************************************)
MaxColors == 3       \* colors in a colors string

\* str.split(',')
RECURSIVE split_commas(_)
split_commas(s) ==
  LET seps == {i \in DOMAIN s : s[i] = ","}
  IN  IF seps = {} THEN <<s>>
      ELSE LET i == CHOOSE k \in seps : \A l \in seps : k <= l
           IN  <<SubSeq(s, 1, i - 1)>> \o split_commas(SubSeq(s, i + 1, Len(s)))

wubrg_order == <<"W", "U", "B", "R", "G">>

format_colors_wubrg(colors_string) ==
  IF colors_string = <<>> \/ strip_name(colors_string) = <<>> THEN <<>>
  ELSE LET parts == split_commas(colors_string)
           colors == [i \in DOMAIN parts |-> strip_name(parts[i])]
           listed(color) == \E i \in DOMAIN colors : colors[i] = <<color>>
       IN  SelectSeq(wubrg_order, listed)

\* The colors column of a row after update_color_display: rows with NULL or
\* '' are not selected, the others get the formatted text when it differs.
update_color_display(current_colors) ==
  IF current_colors = <<>> THEN current_colors
  ELSE LET clean_colors == format_colors_wubrg(current_colors)
       IN  IF current_colors # clean_colors THEN clean_colors ELSE current_colors

\* Comma-separated lists of up to MaxColors colors, with and without a
\* blank behind each comma, and blank text.
RECURSIVE comma_list(_, _)
comma_list(colors, sep) ==
  IF colors = <<>> THEN <<>>
  ELSE IF Len(colors) = 1 THEN <<colors[1]>>
  ELSE <<colors[1]>> \o sep \o comma_list(Tail(colors), sep)

ColorStrings ==
  { comma_list(colors, sep) :
      colors \in UNION { [1..n -> Range(wubrg_order)] : n \in 0..MaxColors },
      sep \in { <<",">>, <<",", " ">> } }
  \cup { <<" ">> }

apply_update_color_display ==
  /\ call.fn = "update_color_display" /\ call.ret = <<>>
  /\ call' = [call EXCEPT !.ret = <<update_color_display(call.args[1])>>]
  /\ UNCHANGED <<inventory, price_alerts, now, price_monitor_thread, collection_templates,
                 card_templates, client>>

FnInit ==
  /\ deployment = "working_app"
  /\ cards = {}
  /\ nextId = 1
  /\ jobs = [j \in JobIds |-> NoJob]
  /\ progress_state = [u \in Owners |-> NoProgress]
  /\ active_updates = [u \in Owners |-> FALSE]
  /\ fetches = {}
  /\ response = NoResponse
  /\ requests = 0
  /\ price_alerts = {}
  /\ now = 0
  /\ price_monitor_thread = NoMonitor
  /\ collection_templates = {}
  /\ card_templates = {}
  /\ client = NoClient
  /\ \/ \E name1 \in Names, name2 \in Names : call = Call("cards_match", <<name1, name2>>)
     \/ \E data \in ColoredCards : call = Call("app_extract_card_data", <<data>>)
     \/ \E data \in ColoredCards \cup FacedCards : call = Call("extract_card_data", <<data>>)
     \/ \E df \in FoilFrames, u \in Owners : call = Call("RowToCard", <<df, u>>)
     \/ \E mana_cost \in ManaCosts : call = Call("calculate_mana_value", <<mana_cost>>)
     \/ \E colors \in ColorStrings : call = Call("update_color_display", <<colors>>)

FnNext ==
  \/ apply_cards_match
  \/ apply_app_extract_card_data
  \/ apply_extract_card_data
  \/ apply_RowToCard
  \/ apply_calculate_mana_value
  \/ apply_update_color_display

FnSpec == FnInit /\ [][FnNext]_vars

(***************************************************************************)
(* working_app.py with quantities of either sign in the uploads and the    *)
(* forms: int(row['quantity']) and int(request.form.get('quantity', 1))    *)
(* accept any integer text.                                                *)
(***************************************************************************)
SignedQuantities == {0 - 1, 1}

SignedFrames ==
  { [columns |-> ManaboxColumns, rows |-> <<ManaboxRow("Lightning Bolt", "normal", q, "1")>>] :
      q \in {"-1", "1"} }
  \cup { [columns |-> NumericColumns, rows |-> <<row>>] : row \in NumericRows }

SignedAddForms ==
  { [card_name |-> "Lightning Bolt", set_code |-> "LEA", collector_number |-> "",
     quantity |-> q, condition |-> "Near Mint", purchase_price |-> 1, is_foil |-> FALSE]
    : q \in SignedQuantities }

SignedEditForms ==
  { [card_name |-> "Lightning Bolt", condition |-> "Near Mint", quantity |-> q,
     purchase_price |-> 1] : q \in SignedQuantities }

QuantityInit == Init /\ deployment = "working_app"

QuantityNext ==
  \/ \E u \in Owners, df \in SignedFrames : import_csv(u, df)
  \/ \E j \in JobIds : ImportStart(j)
  \/ \E j \in JobIds, ok \in BOOLEAN : ImportRow(j, ok)
  \/ \E j \in JobIds : ImportFinish(j)
  \/ \E j \in JobIds, card_data \in LookupResults, ok \in BOOLEAN : EnrichCard(j, card_data, ok)
  \/ \E j \in JobIds, ok \in BOOLEAN : JobComplete(j, ok)
  \/ \E j \in JobIds : JobFail(j)
  \/ \E j \in JobIds : JobCleanup(j)
  \/ \E u \in Owners, form \in SignedAddForms : add_card(u, form)
  \/ \E f \in fetches, card_data \in LookupResults : fetch_card_data_background(f, card_data)
  \/ \E u \in Owners, id \in CardIds, form \in SignedEditForms : edit_card(u, id, form)

QuantitySpec == QuantityInit /\ [][QuantityNext]_vars

(***************************************************************************)
(* Collection templates: create_collection_template of working_app.py and  *)
(* of app_backup.py.  A hash is the text that is hashed; of a row the      *)
(* columns kept are those that enter a hash.  now counts the readings of   *)
(* the clock: two calls read different timestamps.                         *)
(***************************************************************************)
MaxTemplates == 3    \* rows ever inserted into collection_templates

TemplateNames == {"Deck", "Cube"}

TemplateRow(card_name, collector_number) ==
  [card_name |-> card_name, set_code |-> "XLN", collector_number |-> collector_number]

\* The processed uploads: one row, two rows, and rows of which one has no
\* card name.
TemplateFrames ==
  { <<TemplateRow("Opt", "65")>>,
    <<TemplateRow("Opt", "65"), TemplateRow("Shock", "141")>>,
    <<TemplateRow("", "1"), TemplateRow("Opt", "65")>> }

\* INSERT INTO card_templates, entry by entry: an entry is a row of the
\* upload with the value of its template_hash column.
RECURSIVE InsertCardTemplates(_, _, _)
InsertCardTemplates(table, template_id, entries) ==
  IF entries = <<>> THEN table
  ELSE LET row == Head(entries).row
       IN  InsertCardTemplates(
             table \cup {[id |-> Cardinality(table) + 1, template_id |-> template_id,
                          card_name |-> row.card_name, set_code |-> row.set_code,
                          collector_number |-> row.collector_number,
                          template_hash |-> Head(entries).template_hash]},
             template_id, Tail(entries))

card_hash(row) == <<row.card_name, row.set_code, row.collector_number>>

\* working_app.py: the hash is of name, owner, number of rows and the
\* timestamp; the template and its rows are inserted.
create_collection_template(df, template_name, user_id) ==
  /\ deployment = "working_app"
  /\ Cardinality(collection_templates) < MaxTemplates
  /\ now' = now + 1
  /\ LET template_hash == <<template_name, user_id, Len(df), now'>>
         template_id == Cardinality(collection_templates) + 1
     IN  /\ collection_templates' =
               collection_templates \cup {[id |-> template_id, name |-> template_name,
                                           template_hash |-> template_hash,
                                           created_by |-> user_id]}
         /\ card_templates' =
               InsertCardTemplates(card_templates, template_id,
                 [i \in DOMAIN df |-> [row |-> df[i], template_hash |-> card_hash(df[i])]])
         /\ call' = [fn |-> "create_collection_template",
                     args |-> <<df, template_name, user_id>>, ret |-> <<template_id>>]
  /\ UNCHANGED <<inventory, price_alerts, price_monitor_thread, client>>

\* app_backup.py, content_string: the name, the number of rows and, row by
\* row, card name, set code and collector number.
content_string(df, template_name) ==
  <<template_name, Len(df), [i \in DOMAIN df |-> card_hash(df[i])]>>

named_row(row) == row.card_name # ""

\* app_backup.py: the hash is of the content; a template of that hash is
\* returned as it is, otherwise the template and its named rows are
\* inserted.
app_backup_create_collection_template(df, template_name, user_id) ==
  /\ deployment = "app_backup"
  /\ LET template_hash == content_string(df, template_name)
         existing == {t \in collection_templates : t.template_hash = template_hash}
         template_id == Cardinality(collection_templates) + 1
         named_rows == SelectSeq(df, named_row)
     IN  IF existing # {}
           THEN /\ call' = [fn |-> "create_collection_template",
                            args |-> <<df, template_name, user_id>>,
                            ret |-> <<(CHOOSE t \in existing : TRUE).id>>]
                /\ UNCHANGED <<collection_templates, card_templates>>
           ELSE /\ Cardinality(collection_templates) < MaxTemplates
                /\ collection_templates' =
                      collection_templates \cup {[id |-> template_id, name |-> template_name,
                                                  template_hash |-> template_hash,
                                                  created_by |-> user_id]}
                /\ card_templates' =
                      InsertCardTemplates(card_templates, template_id,
                        [i \in DOMAIN named_rows |->
                           [row |-> named_rows[i], template_hash |-> template_hash]])
                /\ call' = [fn |-> "create_collection_template",
                            args |-> <<df, template_name, user_id>>, ret |-> <<template_id>>]
  /\ UNCHANGED <<inventory, price_alerts, now, price_monitor_thread, client>>

TemplateInit ==
  /\ deployment \in {"working_app", "app_backup"}
  /\ cards = {}
  /\ nextId = 1
  /\ jobs = [j \in JobIds |-> NoJob]
  /\ progress_state = [u \in Owners |-> NoProgress]
  /\ active_updates = [u \in Owners |-> FALSE]
  /\ fetches = {}
  /\ response = NoResponse
  /\ requests = 0
  /\ price_alerts = {}
  /\ now = 0
  /\ price_monitor_thread = NoMonitor
  /\ collection_templates = {}
  /\ card_templates = {}
  /\ client = NoClient
  /\ call = NoCall

TemplateNext ==
  \/ \E df \in TemplateFrames, template_name \in TemplateNames, user_id \in Owners :
       create_collection_template(df, template_name, user_id)
  \/ \E df \in TemplateFrames, template_name \in TemplateNames, user_id \in Owners :
       app_backup_create_collection_template(df, template_name, user_id)

TemplateSpec == TemplateInit /\ [][TemplateNext]_vars

(***************************************************************************)
(* update_card_prices_and_metadata_with_progress (csv_import_helpers.py),  *)
(* the enrichment engine of working_app.py, with the stored metadata, the  *)
(* commits and the updates not yet committed.  One job runs over the       *)
(* records of owner 1.                                                     *)
(***************************************************************************)
JobRecords == 12     \* records of the enrichment job
CommitEvery == 10    \* if (i + 1) % 10 == 0: conn.commit()

\* Record 1 was enriched before and has an alert threshold of 5 percent;
\* the other records are as the import inserted them.
EnrichmentCard(id) ==
  IF id = 1 THEN AlertCard(1, 5)
  ELSE [AlertCard(id, 0) EXCEPT !.current_price = 0, !.total_value = 0,
                                !.price_change = 0 - 100,
                                !.rarity = "", !.colors = "", !.card_type = ""]

\* What fetch_scryfall_data_standalone returns: for a failed lookup {}
\* (working_app.py) or the zero-valued dict (app.py, which the helper imports
\* when working_app is absent), or the card's data.
EnrichmentLookups ==
  { EmptyDict, ZeroResult,
    [usd |-> 110, usd_foil |-> 110, rarity |-> "Common", colors |-> "",
     mana_cost |-> "", mana_value |-> 0, card_type |-> "Land"] }

\* An UPDATE that keeps the stored values when the lookup gave nothing.
UpdateKeepingOnFailure(table, card, card_data) ==
  IF Get(card_data, "rarity", "") = "" THEN table
  ELSE PriceUpdate(table, card, card_data.usd, <<card_data>>)

\* The UPDATE of the loop body: every field from card_data.get with its
\* default.
UpdateCard(table, card, card_data) ==
  LET current_price == Get(card_data, IF card.is_foil THEN "usd_foil" ELSE "usd", 0)
  IN  PriceUpdate(table, card, current_price,
                  <<[rarity |-> Get(card_data, "rarity", ""),
                     colors |-> Get(card_data, "colors", ""),
                     mana_cost |-> Get(card_data, "mana_cost", ""),
                     card_type |-> Get(card_data, "card_type", "")]>>)

\* The call up to the loop: SELECT * FROM cards WHERE id IN (card_ids).
update_card_prices_and_metadata_with_progress(j, user_id, card_ids) ==
  /\ deployment = "working_app"
  /\ jobs[j].pc = "idle" /\ card_ids # {}
  /\ jobs' = [jobs EXCEPT ![j] =
                [NoJob EXCEPT !.kind = "enrichment", !.user_id = user_id, !.pc = "update",
                              !.card_ids = card_ids,
                              !.cards = SelectByIds(cards, card_ids, 1),
                              !.ncards = Len(SelectByIds(cards, card_ids, 1))]]
  /\ UNCHANGED <<others, deployment, cards, nextId, progress_state, active_updates, fetches,
                 response, requests>>

\* A loop body that leaves the loop when the record raises.
update_card_or_abort(j, card_data, raises) ==
  /\ jobs[j].kind = "enrichment" /\ jobs[j].pc = "update" /\ jobs[j].cards # <<>>
  /\ LET job == jobs[j]
         card == Head(job.cards)
     IN  /\ progress_state' = [progress_state EXCEPT ![job.user_id] =
                                 [NoProgress EXCEPT !.type = "progress", !.phase = "price_update",
                                                    !.current = job.i + 1, !.total = job.ncards]]
         /\ cards' = IF raises THEN cards ELSE UpdateCard(cards, card, card_data)
         /\ jobs' = [jobs EXCEPT ![j].cards = IF raises THEN <<>> ELSE Tail(job.cards),
                                 ![j].i = job.i + 1,
                                 ![j].updated_count = IF raises THEN @ ELSE @ + 1,
                                 ![j].uncommitted = IF raises THEN @ ELSE @ + 1]
  /\ UNCHANGED <<others, deployment, nextId, active_updates, fetches, response, requests>>

\* One iteration of the loop: the progress tick, the lookup, the UPDATE, the
\* count, and the commit when i + 1 is a multiple of 10.  raises is an
\* iteration whose try block raises before the UPDATE took effect: the
\* except logs it, and neither the count nor the commit is reached.
update_card(j, card_data, raises) ==
  /\ jobs[j].kind = "enrichment" /\ jobs[j].pc = "update" /\ jobs[j].cards # <<>>
  /\ LET job == jobs[j]
         card == Head(job.cards)
     IN  /\ progress_state' = [progress_state EXCEPT ![job.user_id] =
                                 [NoProgress EXCEPT !.type = "progress", !.phase = "price_update",
                                                    !.current = job.i + 1, !.total = job.ncards]]
         /\ cards' = IF raises THEN cards ELSE UpdateCard(cards, card, card_data)
         /\ jobs' = [jobs EXCEPT ![j].cards = Tail(job.cards),
                                 ![j].i = job.i + 1,
                                 ![j].updated_count = IF raises THEN @ ELSE @ + 1,
                                 ![j].uncommitted =
                                    IF raises THEN @
                                    ELSE IF (job.i + 1) % CommitEvery = 0 THEN 0
                                    ELSE @ + 1]
  /\ UNCHANGED <<others, deployment, nextId, active_updates, fetches, response, requests>>

\* After the loop: conn.commit(), conn.close(), return updated_count.
update_return(j) ==
  /\ jobs[j].kind = "enrichment" /\ jobs[j].pc = "update" /\ jobs[j].cards = <<>>
  /\ jobs' = [jobs EXCEPT ![j].pc = "returned", ![j].uncommitted = 0]
  /\ UNCHANGED <<others, deployment, cards, nextId, progress_state, active_updates, fetches,
                 response, requests>>

EnrichInit ==
  /\ deployment = "working_app"
  /\ cards = {EnrichmentCard(id) : id \in 1..JobRecords}
  /\ nextId = JobRecords + 1
  /\ jobs = [j \in JobIds |-> NoJob]
  /\ progress_state = [u \in Owners |-> NoProgress]
  /\ active_updates = [u \in Owners |-> FALSE]
  /\ fetches = {}
  /\ response = NoResponse
  /\ requests = 0
  /\ price_alerts = {}
  /\ now = 0
  /\ price_monitor_thread = NoMonitor
  /\ collection_templates = {}
  /\ card_templates = {}
  /\ client = NoClient
  /\ call = NoCall

EnrichNext ==
  \/ \E card_ids \in {1..JobRecords, 1..2} :
       update_card_prices_and_metadata_with_progress(1, 1, card_ids)
  \/ \E card_data \in EnrichmentLookups, raises \in BOOLEAN : update_card(1, card_data, raises)
  \/ update_return(1)

EnrichSpec == EnrichInit /\ [][EnrichNext]_vars

(***************************************************************************)
(* Two operations of one owner that introduce the same identity key: an    *)
(* upload of one row and the add form, both for the same printing, the     *)
(* second request arriving while the first operation is still at work.     *)
(* An INSERT of the import that raises is left out: such an import         *)
(* introduces nothing.                                                     *)
(***************************************************************************)
RaceOwner == CHOOSE u \in Owners : \A v \in Owners : u <= v

RaceRow == ManaboxRow("Lightning Bolt", "normal", "2", "1")

RaceFrame == [columns |-> ManaboxColumns, rows |-> <<RaceRow>>]

RaceForm ==
  [card_name |-> "Lightning Bolt", set_code |-> "LEA", collector_number |-> "",
   quantity |-> 1, condition |-> "Near Mint", purchase_price |-> 1, is_foil |-> FALSE]

\* The first request, or a request that arrives while a thread is at work.
RaceOpen == requests = 0 \/ \E j \in JobIds : Running(j)

RaceInit == Init /\ deployment \in {"working_app", "app"}

RaceNext ==
  \/ RaceOpen /\ import_csv(RaceOwner, RaceFrame)
  \/ \E j \in JobIds : ImportStart(j)
  \/ \E j \in JobIds : ImportRow(j, TRUE)
  \/ \E j \in JobIds : ImportFinish(j)
  \/ \E j \in JobIds, card_data \in LookupResults, ok \in BOOLEAN : EnrichCard(j, card_data, ok)
  \/ \E j \in JobIds, ok \in BOOLEAN : JobComplete(j, ok)
  \/ \E j \in JobIds : JobCleanup(j)
  \/ RaceOpen /\ add_card(RaceOwner, RaceForm)
  \/ \E f \in fetches, card_data \in LookupResults : fetch_card_data_background(f, card_data)
  \/ RaceOpen /\ app_import_csv(RaceOwner, RaceFrame)
  \/ \E j \in JobIds : app_import_row(j, TRUE)
  \/ \E j \in JobIds : app_import_finish(j)
  \/ \E j \in JobIds, card_data \in LookupResults, ok \in BOOLEAN :
       update_card_prices_and_metadata(j, card_data, ok)
  \/ \E j \in JobIds : app_request_done(j)
  \/ RaceOpen /\ \E d1 \in LookupResults, d2 \in LookupResults :
       app_add_card(RaceOwner, RaceForm, d1, d2)

RaceSpec == RaceInit /\ [][RaceNext]_vars

(***************************************************************************)
(* working_app.py: uploads of either owner, their threads, and polls of    *)
(* progress_status at any moment between the threads' steps.               *)
(***************************************************************************)
\* Uploads of one and of two rows, and one without a name column.
PollFrames ==
  { [columns |-> ManaboxColumns,
     rows |-> [i \in 1..n |-> ManaboxRow("Lightning Bolt", "normal", "1", "1")]] : n \in 1..MaxRows }
  \cup { [columns |-> NumericColumns, rows |-> <<row>>] : row \in NumericRows }

PollInit == Init /\ deployment = "working_app"

PollNext ==
  \/ \E u \in Owners, df \in PollFrames : import_csv(u, df)
  \/ \E j \in JobIds : ImportStart(j)
  \/ \E j \in JobIds, ok \in BOOLEAN : ImportRow(j, ok)
  \/ \E j \in JobIds : ImportFinish(j)
  \/ \E j \in JobIds, card_data \in LookupResults, ok \in BOOLEAN : EnrichCard(j, card_data, ok)
  \/ \E j \in JobIds, ok \in BOOLEAN : JobComplete(j, ok)
  \/ \E j \in JobIds : JobFail(j)
  \/ \E j \in JobIds : JobCleanup(j)
  \/ \E u \in Owners : progress_status(u)

PollSpec == PollInit /\ [][PollNext]_vars

(***************************************************************************)
(* update_prices, the refresh of the records that lack metadata, in        *)
(* working_app.py (a thread) and app.py (a request), over an inventory in  *)
(* which owner 1 has a fully enriched record of high value and two records *)
(* without rarity, and owner 2 one record without rarity.                  *)
(***************************************************************************)
RefreshCard(id, u, price, rarity) ==
  [AlertCard(id, 0) EXCEPT !.user_id = u, !.card_name = "Lightning Bolt",
                           !.current_price = price, !.total_value = price,
                           !.price_change = price - 100,
                           !.rarity = rarity, !.colors = "R", !.mana_cost = "{R}",
                           !.card_type = "Instant"]

RefreshCards ==
  { RefreshCard(1, 1, 3, "Common"), RefreshCard(2, 1, 1, ""),
    RefreshCard(3, 1, 2, ""), RefreshCard(4, 2, 1, "") }

RefreshInit ==
  /\ deployment \in {"working_app", "app"}
  /\ cards = RefreshCards
  /\ nextId = Cardinality(RefreshCards) + 1
  /\ jobs = [j \in JobIds |-> NoJob]
  /\ progress_state = [u \in Owners |-> NoProgress]
  /\ active_updates = [u \in Owners |-> FALSE]
  /\ fetches = {}
  /\ response = NoResponse
  /\ requests = 0
  /\ price_alerts = {}
  /\ now = 0
  /\ price_monitor_thread = NoMonitor
  /\ collection_templates = {}
  /\ card_templates = {}
  /\ client = NoClient
  /\ call = NoCall

RefreshNext ==
  \/ \E u \in Owners : update_prices(u)
  \/ \E j \in JobIds : RefreshStart(j)
  \/ \E j \in JobIds, card_data \in LookupResults, ok \in BOOLEAN : EnrichCard(j, card_data, ok)
  \/ \E j \in JobIds, ok \in BOOLEAN : JobComplete(j, ok)
  \/ \E j \in JobIds : JobCleanup(j)
  \/ \E u \in Owners : app_update_prices(u)
  \/ \E j \in JobIds, card_data \in AlertLookups : app_update_prices_card(j, card_data)
  \/ \E j \in JobIds : app_update_prices_done(j)

RefreshSpec == RefreshInit /\ [][RefreshNext]_vars

(***************************************************************************)
(* Properties                                                              *)
(***************************************************************************)
\* A step of the row loop of import job j (either deployment's loop).
ImportRowStepOf(j) ==
  /\ jobs[j].kind = "import" /\ jobs[j].pc = "import" /\ jobs[j].rows # <<>>
  /\ jobs'[j].idx = jobs[j].idx + 1

\* The record the step is about to insert, and whether it inserted it.
RowCard(j) == RowToCard(Head(jobs[j].rows), jobs[j].user_id).card

RowInserted(j) == jobs'[j].imported_count = jobs[j].imported_count + 1

SameKeySameOwner(c, d) == c.user_id = d.user_id /\ identity_key(c) = identity_key(d)

Ids(table) == {c.id : c \in table}

\* C1: no two inventory records of one owner have the same identity key
\* (card name, set code, collector number, foil flag, condition), after any
\* sequence of CSV imports and manual adds.
C1_IdentityKeyUniquePerOwner ==
  \A c, d \in cards : SameKeySameOwner(c, d) => c.id = d.id

\* C2: when an imported row's identity key equals that of an existing record
\* of the same owner, the import adds the row's quantity to that record's
\* quantity and creates no new record.
C2_ImportMergesQuantity ==
  [][\A j \in JobIds :
       (ImportRowStepOf(j) /\ RowInserted(j)) =>
         \A e \in cards :
           SameKeySameOwner(e, RowCard(j)) =>
             /\ Ids(cards') = Ids(cards)
             /\ \E f \in cards' : /\ f.id = e.id
                                  /\ f.quantity = e.quantity + RowCard(j).quantity]_vars

\* C3: a CSV import run by owner A never deletes, replaces or changes a
\* record owned by a different owner B, whatever the payload.
C3_ImportLeavesOtherOwners ==
  [][\A j \in JobIds :
       ImportRowStepOf(j) =>
         {c \in cards : c.user_id # jobs[j].user_id}
           = {c \in cards' : c.user_id # jobs[j].user_id}]_vars

\* C4: the import handles every row exactly once: a row whose name is
\* absent, empty or "nan" creates no record and is counted as an error, a row
\* whose insert fails is counted as an error without stopping later rows, and
\* the import reports an inserted count and an error count whose sum equals
\* the number of input rows.
C4_RowsCounted ==
  \A j \in JobIds :
    (jobs[j].kind = "import" /\ jobs[j].pc = "import") =>
      /\ jobs[j].imported_count + jobs[j].error_count = jobs[j].idx
      /\ jobs[j].idx + Len(jobs[j].rows) = jobs[j].total

C4_RowHandledOnce ==
  \A j \in JobIds :
    ImportRowStepOf(j) =>
      /\ jobs'[j].rows = Tail(jobs[j].rows)
      /\ jobs'[j].pc = "import"
      /\ ~RowToCard(Head(jobs[j].rows), jobs[j].user_id).valid => ~RowInserted(j)
      /\ ~RowInserted(j) => /\ cards' = cards
                            /\ jobs'[j].error_count = jobs[j].error_count + 1
                            /\ jobs'[j].imported_count = jobs[j].imported_count

\* The report of a finished import: the 'complete' state of the thread
\* (working_app.py), the flash message of the request (app.py).
C4_CountsReported ==
  \A j \in JobIds :
    (jobs[j].kind = "import" /\ jobs[j].pc = "enrich" /\ jobs'[j].pc \in {"cleanup", "done"}) =>
      LET report == IF deployment = "app" THEN response' ELSE progress_state'[jobs[j].user_id]
      IN  (deployment = "app" \/ report.type = "complete") =>
            /\ {"imported_count", "error_count"} \subseteq DOMAIN report
            /\ report.imported_count + report.error_count = jobs[j].total

C4_ImportCountsEveryRow ==
  []C4_RowsCounted /\ [][C4_RowHandledOnce /\ C4_CountsReported]_vars

\* C5: an upload with no recognized card-name column and no column of
\* textual values is rejected as a whole: no record is created or changed and
\* the job ends in the error state, never in complete.
NoNameColumn(df) ==
  /\ "Name" \notin Range(df.columns)
  /\ Range(df.columns) \cap ObjectColumns = {}

Stepped(j) == jobs'[j] # jobs[j]

C5_NoNameColumnRejected ==
  [][/\ \A j \in JobIds :
          /\ (jobs[j].kind = "import" /\ jobs[j].pc = "start"
                /\ NoNameColumn(jobs[j].df) /\ Stepped(j)) =>
                (cards' = cards /\ jobs'[j].pc = "failed")
          /\ (jobs[j].pc = "failed" /\ Stepped(j)) =>
                /\ cards' = cards
                /\ progress_state'[jobs[j].user_id].type = "error"
                /\ jobs'[j].pc = "cleanup"
          /\ (jobs[j].pc = "cleanup" /\ Stepped(j)) =>
                /\ cards' = cards
                /\ progress_state' = progress_state
                /\ jobs'[j].pc = "done"
     /\ \A u \in Owners, df \in DataFrames :
          (NoNameColumn(df) /\ app_import_csv(u, df)) =>
            (cards' = cards /\ jobs' = jobs /\ ~response'.success)]_vars

\* An import thread has failed on such an upload and written its error state.
C5_Witness ==
  \E j \in JobIds :
    /\ jobs[j].kind = "import" /\ jobs[j].pc = "cleanup"
    /\ jobs[j].rows = <<>> /\ jobs[j].idx = 0
    /\ progress_state[jobs[j].user_id].type = "error"

\* C6: at most one background job is active for an owner at any time.
BackgroundJob(j) == deployment # "app" /\ Running(j)

C6_OneActiveJobPerOwner ==
  \A j, k \in JobIds :
    (BackgroundJob(j) /\ BackgroundJob(k) /\ jobs[j].user_id = jobs[k].user_id) => j = k

\* C7: per owner the polled progress state moves idle -> running ->
\* (complete | error); a recorded complete or error state is changed only by
\* the begin ('start' state) of a new job, never by a progress tick.
C7_TerminalStateLeftOnlyByBegin ==
  [][\A u \in Owners :
       (progress_state[u].type \in {"complete", "error"}
          /\ progress_state'[u] # progress_state[u]) =>
         progress_state'[u].type = "start"]_vars

\* C8: every started background job (the threads of working_app.py)
\* eventually writes a complete or error state for its owner and then clears
\* the owner's active flag (every lookup returning: each step of a thread
\* that can be taken is eventually taken).
LiveSpec == Spec /\ \A j \in JobIds : WF_vars(JobStep(j))

StartedJob(j) == deployment = "working_app" /\ Running(j)

C8_FinalWriteThenClear ==
  \A j \in JobIds :
    (StartedJob(j) /\ Stepped(j)) =>
      /\ jobs'[j].pc = "cleanup" =>
            progress_state'[jobs[j].user_id].type \in {"complete", "error"}
      /\ jobs'[j].pc = "done" =>
            (jobs[j].pc = "cleanup" /\ ~active_updates'[jobs[j].user_id])

C8_StartedJobFinishes ==
  /\ \A j \in JobIds : StartedJob(j) ~> (jobs[j].pc = "done")
  /\ [][C8_FinalWriteThenClear]_vars

\* A thread has written its final state and cleared the flag.
C8_Witness ==
  \E j \in JobIds, u \in Owners :
    /\ deployment = "working_app" /\ jobs[j].pc = "done"
    /\ progress_state[u].type \in {"complete", "error"}
    /\ ~active_updates[u]

\* C9: each record's total value equals its current price times its
\* quantity and its price delta equals its current price minus its purchase
\* price (for a record on which no enrichment is pending).
AwaitingEnrichment(c) ==
  \/ \E f \in fetches : f.id = c.id
  \/ \E j \in JobIds :
       \/ jobs[j].pc = "import" /\ c.id \in Range(jobs[j].imported_card_ids)
       \/ jobs[j].pc = "start" /\ c.id \in jobs[j].card_ids
       \/ jobs[j].pc = "enrich" /\ \E i \in DOMAIN jobs[j].cards : jobs[j].cards[i].id = c.id

C9_DerivedFieldsConsistent ==
  \A c \in cards :
    ~AwaitingEnrichment(c) =>
      /\ c.total_value = c.current_price * c.quantity
      /\ c.price_change = c.current_price - c.purchase_price

\* C10: bulk delete and refresh-selection act on exactly the listed ids the
\* caller owns: other owners' records are never deleted or updated, and with
\* no owned id in the list the call reports an error and changes nothing.
OthersUntouched(u) ==
  {c \in cards : c.user_id # u} = {c \in cards' : c.user_id # u}

C10_Delete(u, ids) ==
  LET owned == ids \cap OwnedIds(cards, u)
  IN  /\ OthersUntouched(u)
      /\ Ids(cards') = Ids(cards) \ owned
      /\ owned = {} => (~response'.success /\ cards' = cards)

C10_RefreshSelection(u, ids) ==
  LET owned == ids \cap OwnedIds(cards, u)
  IN  /\ cards' = cards
      /\ owned = {} => (~response'.success /\ jobs' = jobs)
      /\ owned # {} => \E j \in JobIds : Stepped(j) /\ jobs'[j].card_ids = owned

C10_BulkOperationsScopedToOwner ==
  [][/\ \A u \in Owners, ids \in IdLists :
          /\ mass_delete(u, ids) => C10_Delete(u, ids)
          /\ app_mass_delete(u, ids) => C10_Delete(u, ids)
          /\ mass_update_prices(u, ids) => C10_RefreshSelection(u, ids)
          /\ app_mass_update_prices(u, ids) => C10_RefreshSelection(u, ids)
     /\ \A j \in JobIds :
          (jobs[j].kind = "mass_update_prices" /\ Stepped(j)) =>
            OthersUntouched(jobs[j].user_id)]_vars

\* C11: for each inventory record, no two unread price alerts have trigger
\* times less than 24 hours apart: a threshold breach detected less than 24
\* hours after an unread alert of the record creates no second alert, and a
\* breach detected more than 24 hours after the record's last alert does
\* create one.
C11_OneUnreadAlertPerDay ==
  \A a, b \in price_alerts :
    (a.card_id = b.card_id /\ a.id # b.id /\ ~a.is_read /\ ~b.is_read) =>
      Abs(a.triggered_at - b.triggered_at) >= DayHours

\* A breach of card's threshold is detected in this step, by either loop.
BreachDetected(card) ==
  \/ \E j \in JobIds, card_data \in AlertLookups :
       /\ app_update_prices_card(j, card_data)
       /\ card = Head(jobs[j].cards)
       /\ card.price_alert_threshold > 0 /\ card.current_price # 0
       /\ Breach(card, PriceOf(card_data, card.is_foil))
  \/ \E prices \in AlertLookups :
       /\ monitor_card(prices)
       /\ card = Head(price_monitor_thread.cards_with_alerts)
       /\ card.current_price > 0
       /\ Breach(card, PriceOf(prices, card.is_foil))

C11_BreachAlerts ==
  \A id \in CardIds, card \in cards :
    (card.id = id /\ BreachDetected(card)) =>
      LET unread == {a \in price_alerts : a.card_id = id /\ ~a.is_read}
      IN  /\ (\E a \in unread : now - a.triggered_at < DayHours) => price_alerts' = price_alerts
          /\ (\A a \in price_alerts : a.card_id = id => now - a.triggered_at > DayHours) =>
               price_alerts' # price_alerts

C11_AlertDeduplication ==
  []C11_OneUnreadAlertPerDay /\ [][C11_BreachAlerts]_vars

\* C12: the lookup client never raises: for every outcome of the external
\* service (network exception, non-success status, no match, response missing
\* fields) it returns a result whose price fields are zero or absent and
\* whose metadata fields are empty.
FailedLookups ==
  { Exception, Response(404, ErrorObject), Response(200, MissingFields),
    Response(200, [object |-> "list"]),
    Response(200, [object |-> "list", total_cards |-> 0]),
    Response(200, [object |-> "list", total_cards |-> 1, data |-> <<MissingFields>>]) }

ZeroOrEmpty(v) ==
  /\ Get(v, "usd", 0) = 0 /\ Get(v, "usd_foil", 0) = 0
  /\ Get(v, "rarity", "") = "" /\ Get(v, "colors", "") = ""
  /\ Get(v, "mana_cost", "") = "" /\ Get(v, "card_type", "") = ""
  /\ Get(v, "mana_value", 0) = 0

\* The request that decides the result of the call came to outcome out.
Decided(out) ==
  /\ \/ app_named_search(out)
     \/ search(out)
     \/ fallback_search(out)
  /\ client'.pc = "returned"

C12_NeverRaises ==
  client.pc = "returned" => (client.result.returned /\ ~IsRaised(client.result.value))

C12_FailureGivesZeroResult ==
  \A out \in FailedLookups : Decided(out) => ZeroOrEmpty(client'.result.value)

C12_LookupNeverRaises ==
  []C12_NeverRaises /\ [][C12_FailureGivesZeroResult]_vars

\* C13: the name-equivalence check returns true for two names exactly when,
\* after trimming and case-folding, (a) they are equal, or (b) they are equal
\* after stripping the fixed printing-variant annotations from each name, or
\* (c) at least one name contains the "//" face separator and the first
\* faces of the two names are equal.
RECURSIVE StripAnnotations(_, _)
StripAnnotations(name, v) ==
  IF v > Len(variants) THEN name
  ELSE StripAnnotations(replace(name, variants[v]), v + 1)

NameEquivalent(name1, name2) ==
  LET n1 == lower_name(strip_name(name1))
      n2 == lower_name(strip_name(name2))
  IN  \/ n1 = n2
      \/ StripAnnotations(n1, 1) = StripAnnotations(n2, 1)
      \/ /\ "//" \in Range(n1) \/ "//" \in Range(n2)
         /\ strip_name(first_part(n1)) = strip_name(first_part(n2))

C13_NameEquivalence ==
  (call.fn = "cards_match" /\ call.ret # <<>>) =>
    call.ret[1] = NameEquivalent(call.args[1], call.args[2])

\* C14: the color value stored for an enriched record is derived from the
\* service's color list: empty list -> "Colorless"; exactly one color -> that
\* color's full name (White, Blue, Black, Red, Green); two or more colors ->
\* "Multicolor".
ColorName(c) ==
  CASE c = "W" -> "White" [] c = "U" -> "Blue" [] c = "B" -> "Black"
    [] c = "R" -> "Red" [] c = "G" -> "Green"

ColorValue(colors) ==
  CASE Len(colors) = 0 -> "Colorless"
    [] Len(colors) = 1 -> ColorName(colors[1])
    [] OTHER -> "Multicolor"

C14_ColorCategory ==
  (call.fn \in {"app_extract_card_data", "extract_card_data"} /\ call.ret # <<>>) =>
    call.ret[1].colors = ColorValue(call.args[1].colors)

\* C15: the foil flag of an imported record is true exactly when the row's
\* foil cell, trimmed and lower-cased, is one of "foil", "true", "yes", "1";
\* it is false for every other value (such as "normal") and for an absent
\* cell or absent foil column.
FoilCellOf(df) ==
  IF "Foil" \in Range(df.columns) THEN df.rows[1]["Foil"] ELSE NaN

\* The cells that, trimmed and lower-cased, are one of the four tokens.
FoilTokenCells == {"foil", "Foil ", "true", "True", "YES", "yes", "1"}

C15_FoilFlag ==
  (call.fn = "RowToCard" /\ call.ret # <<>>) =>
    (call.ret[1].is_foil <=> FoilCellOf(call.args[1]) \in FoilTokenCells)

\* A row whose foil cell needs both the trimming and the lower-casing has
\* been converted.
C15_Witness ==
  /\ call.fn = "RowToCard" /\ call.ret # <<>>
  /\ FoilCellOf(call.args[1]) = "Foil "
  /\ call.ret[1].is_foil

\* C16: every inventory record's quantity is an integer greater than or
\* equal to 0 in every reachable state, after any sequence of imports, manual
\* adds, merges and edits.
C16_QuantityNonNegative ==
  \A c \in cards : c.quantity >= 0

(***************************************************************************)
(* C17: calculate_mana_value of a cost is the sum, over the symbols that   *)
(* stand between a pair of braces, of the symbol's value: the number for a *)
(* number, 1 for W, U, B, R, G, C and S, 0 for X, Y and Z, and for a       *)
(* hybrid "a/b" the larger of the values of a and b; a cost without        *)
(* symbols, the empty cost among them, gives 0.  The statement is about    *)
(* the costs whose braces pair and whose symbols are of these kinds, a     *)
(* hybrid having a part that is a number or a letter of value 1.           *)
(***************************************************************************)
DecimalDigits == <<"0", "1", "2", "3", "4", "5", "6", "7", "8", "9">>

Decimal(n) ==
  IF n < 10 THEN <<DecimalDigits[n + 1]>>
  ELSE <<DecimalDigits[(n \div 10) + 1], DecimalDigits[(n % 10) + 1]>>

Numbers == 0..39

OneLetters == {"W", "U", "B", "R", "G", "C", "S", "w", "u", "b", "r", "g", "c", "s"}

ZeroLetters == {"X", "Y", "Z", "x", "y", "z"}

IsPlainSymbol(symbol) ==
  \/ \E n \in Numbers : Decimal(n) = symbol
  \/ Len(symbol) = 1 /\ symbol[1] \in OneLetters \cup ZeroLetters

PlainValue(symbol) ==
  IF Len(symbol) = 1 /\ symbol[1] \in OneLetters THEN 1
  ELSE IF Len(symbol) = 1 /\ symbol[1] \in ZeroLetters THEN 0
  ELSE CHOOSE n \in Numbers : Decimal(n) = symbol

HybridParts(symbol) ==
  { <<SubSeq(symbol, 1, i - 1), SubSeq(symbol, i + 1, Len(symbol))>> :
      i \in {k \in DOMAIN symbol : symbol[k] = "/"} }

IsHybridSymbol(symbol) ==
  \E ab \in HybridParts(symbol) :
    /\ IsPlainSymbol(ab[1]) /\ IsPlainSymbol(ab[2])
    /\ ~(ab[1][1] \in ZeroLetters /\ ab[2][1] \in ZeroLetters)

SymbolValue(symbol) ==
  IF IsPlainSymbol(symbol) THEN PlainValue(symbol)
  ELSE LET ab == CHOOSE p \in HybridParts(symbol) : IsPlainSymbol(p[1]) /\ IsPlainSymbol(p[2])
       IN  IF PlainValue(ab[1]) >= PlainValue(ab[2]) THEN PlainValue(ab[1]) ELSE PlainValue(ab[2])

Braces(s) == {i \in DOMAIN s : s[i] \in {"{", "}"}}

\* The pairs of an opening brace and the closing brace that follows it with
\* no brace between them.
BracePairs(s) ==
  { p \in (DOMAIN s) \X (DOMAIN s) :
      /\ p[1] < p[2] /\ s[p[1]] = "{" /\ s[p[2]] = "}"
      /\ \A k \in (p[1] + 1)..(p[2] - 1) : k \notin Braces(s) }

SymbolAt(s, p) == SubSeq(s, p[1] + 1, p[2] - 1)

InC17Domain(s) ==
  /\ Cardinality(Braces(s)) = 2 * Cardinality(BracePairs(s))
  /\ \A p \in BracePairs(s) : IsPlainSymbol(SymbolAt(s, p)) \/ IsHybridSymbol(SymbolAt(s, p))

C17_Value(s) == SumOver([p \in BracePairs(s) |-> SymbolValue(SymbolAt(s, p))], BracePairs(s))

C18_Recreation ==
  (/\ call.fn = "create_collection_template"
   /\ call'.fn = "create_collection_template"
   /\ call'.args[1] = call.args[1]
   /\ call'.args[2] = call.args[2])
    => /\ call'.ret = call.ret
       /\ collection_templates' = collection_templates
       /\ card_templates' = card_templates

C18_IdempotentTemplateCreation == [][C18_Recreation]_vars

(***************************************************************************)
(* C19 (app.py): a call with both set code and collector number sends the  *)
(* exact-print request first and returns that request's result only when   *)
(* the response is a success whose card name is name-equivalent to the     *)
(* queried name; in every other case exactly one fuzzy name search follows *)
(* and its response decides the result; a call without set code or without *)
(* collector number sends the name search alone.                           *)
(***************************************************************************)
\* The requests of the current call, in the order sent.
C19_Requests ==
  SelectSeq(SubSeq(client.http, client.start + 1, Len(client.http)), LAMBDA e : e # "sleep")

C19_BothSupplied == client.set_code # "" /\ client.collector_number # ""

C19_RequestOrder ==
  (deployment = "app" /\ client.pc # "idle") =>
    IF C19_BothSupplied
      THEN /\ client.pc = "exact" => C19_Requests = <<>>
           /\ client.pc = "named" => C19_Requests = <<"GET exact">>
           /\ client.pc = "returned" =>
                C19_Requests \in { <<"GET exact">>, <<"GET exact", "GET named">> }
      ELSE /\ client.pc # "exact"
           /\ client.pc = "named" => C19_Requests = <<>>
           /\ client.pc = "returned" => C19_Requests = <<"GET named">>

C19_ReturnedName(out) == IF "name" \in DOMAIN out.body THEN out.body.name ELSE <<>>

C19_Success(out) == out.kind = "response" /\ out.status_code = 200 /\ ~IsInvalid(out.body)

\* The exact-print response is returned only when it is a success with an
\* equivalent name; otherwise the call goes on to the name search.
C19_ExactPrint ==
  \A out \in CardOutcomes :
    app_exact_print(out) =>
      IF client'.pc = "returned"
        THEN /\ C19_Success(out)
             /\ NameEquivalent(client.card_name, C19_ReturnedName(out))
             /\ client'.result = Returned(app_extract_card_data(out.body))
        ELSE /\ client'.pc = "named"
             /\ ~client'.result.returned
             /\ (C19_Success(out) /\ NameEquivalent(client.card_name, C19_ReturnedName(out)))
                  => IsRaised(app_extract_card_data(out.body))

\* The name search returns, and its response is the result.
C19_NamedSearch ==
  \A out \in CardOutcomes :
    app_named_search(out) =>
      /\ client'.pc = "returned"
      /\ client'.result.returned
      /\ client'.result.value =
           IF C19_Success(out) /\ ~IsRaised(app_extract_card_data(out.body))
             THEN app_extract_card_data(out.body)
             ELSE ZeroResult

C19_LookupOrder == []C19_RequestOrder /\ [][C19_ExactPrint /\ C19_NamedSearch]_vars

\* A call with set code and collector number has returned after the exact
\* print request and the name search that followed it.
C19_Witness ==
  /\ deployment = "app" /\ client.pc = "returned" /\ C19_BothSupplied
  /\ C19_Requests = <<"GET exact", "GET named">>

(***************************************************************************)
(* C20: in the trace of the task every request is followed by the delay    *)
(* before the task's next request, whatever the request came to (a         *)
(* response of any status, an exception).                                  *)
(***************************************************************************)
C20_IsRequest(e) == e \in {"GET exact", "GET named", "GET search", "GET fallback"}

C20_DelayAfterEveryRequest ==
  \A i \in 1..(Len(client.http) - 1) :
    C20_IsRequest(client.http[i]) => client.http[i + 1] = "sleep"

(***************************************************************************)
(* C21: in the normalized result each of price, primary image, mana cost   *)
(* and type line is the top-level field of the response when that field is *)
(* not empty and the first face's field otherwise; the secondary image is  *)
(* the second face's image when there is a second face with an image, and  *)
(* empty otherwise.                                                        *)
(***************************************************************************)
C21_Faces(data) == IF "card_faces" \in DOMAIN data THEN data.card_faces ELSE <<>>

C21_Image(obj) ==
  IF "image_uris" \in DOMAIN obj /\ "normal" \in DOMAIN obj.image_uris
    THEN obj.image_uris.normal ELSE ""

C21_Price(obj) ==
  IF "prices" \in DOMAIN obj /\ "usd" \in DOMAIN obj.prices THEN obj.prices.usd ELSE 0

C21_Text(obj, field) == IF field \in DOMAIN obj THEN obj[field] ELSE ""

\* The top-level value, or the first face's when the top-level one is empty.
C21_TopOrFirstFace(top, of_face(_), empty, data) ==
  IF top # empty THEN top
  ELSE IF Len(C21_Faces(data)) > 0 THEN of_face(C21_Faces(data)[1])
  ELSE empty

C21_FaceFallback ==
  (call.fn = "extract_card_data" /\ call.ret # <<>> /\ call.args[1] \in FacedCards) =>
    LET data == call.args[1]
        result == call.ret[1]
        mana(face) == C21_Text(face, "mana_cost")
        type(face) == C21_Text(face, "type_line")
    IN  /\ result.usd = C21_TopOrFirstFace(C21_Price(data), C21_Price, 0, data)
        /\ result.image_url = C21_TopOrFirstFace(C21_Image(data), C21_Image, "", data)
        /\ result.mana_cost = C21_TopOrFirstFace(C21_Text(data, "mana_cost"), mana, "", data)
        /\ result.card_type = C21_TopOrFirstFace(C21_Text(data, "type_line"), type, "", data)
        /\ result.image_url_back =
              IF Len(C21_Faces(data)) > 1 THEN C21_Image(C21_Faces(data)[2]) ELSE ""

(***************************************************************************)
(* C22: in an enrichment job an iteration that raises leaves the stored    *)
(* records as they are, the job goes on with the next record until every   *)
(* selected record has been processed, and the count the job returns goes  *)
(* up by one exactly for the iterations that did not raise.                *)
(***************************************************************************)
C22_Iteration ==
  \A j \in JobIds, card_data \in EnrichmentLookups, raises \in BOOLEAN :
    update_card(j, card_data, raises) =>
      /\ raises => cards' = cards
      /\ jobs'[j].pc = "update"
      /\ jobs'[j].cards = Tail(jobs[j].cards)
      /\ jobs'[j].updated_count = jobs[j].updated_count + (IF raises THEN 0 ELSE 1)

C22_Return ==
  \A j \in JobIds :
    update_return(j) => jobs'[j].updated_count = jobs[j].updated_count

C22_EveryRecordProcessed ==
  \A j \in JobIds :
    jobs[j].kind = "enrichment" =>
      /\ jobs[j].i + Len(jobs[j].cards) = jobs[j].ncards
      /\ jobs[j].updated_count <= jobs[j].i
      /\ jobs[j].pc = "returned" => jobs[j].i = jobs[j].ncards

C23_AlertDue(old, new) ==
  /\ old.price_alert_threshold # 0 /\ old.current_price # 0
  /\ new.current_price # old.current_price
  /\ Abs(new.current_price - old.current_price) * 100
       >= old.price_alert_threshold * old.current_price
  /\ ~\E a \in price_alerts : a.card_id = old.id /\ a.triggered_at > now - DayHours

C23_Update ==
  \A old \in cards :
    \A new \in cards' :
      (new.id = old.id /\ C23_AlertDue(old, new)) =>
        \E a \in price_alerts' \ price_alerts : a.card_id = old.id

C23_EnrichmentRaisesAlerts == [][C23_Update]_vars

(***************************************************************************)
(* C24: at every point of an enrichment job at most 10 record updates are  *)
(* written and not yet committed, whichever iterations raise.              *)
(***************************************************************************)
C24_UncommittedBounded ==
  \A j \in JobIds : jobs[j].kind = "enrichment" => jobs[j].uncommitted <= 10

(***************************************************************************)
(* C25: two concurrent operations of one owner (imports, manual adds, or   *)
(* one of each) that both introduce the same identity key, not yet in the  *)
(* inventory, end in every interleaving with exactly one record for the    *)
(* key, whose quantity is the sum of the two quantities.                   *)
(***************************************************************************)
\* Both requests were made and every thread they started has ended.
C25_Settled ==
  /\ requests = MaxRequests
  /\ fetches = {}
  /\ \A j \in JobIds : ~Running(j)

C25_Imports == Cardinality({j \in JobIds : jobs[j].pc = "done"})

C25_Sum ==
  C25_Imports * RowToCard(preprocess_csv_data(RaceFrame).rows[1], RaceOwner).card.quantity
    + (requests - C25_Imports) * RaceForm.quantity

C25_ConcurrentIntroductionsMerge ==
  C25_Settled =>
    \E c \in cards :
      /\ cards = {c}
      /\ identity_key(c) = identity_key(FormCard(RaceForm, RaceOwner))
      /\ c.quantity = C25_Sum

(***************************************************************************)
(* C26: every progress state a poll returns is one state that a single     *)
(* update wrote in full; a poll between progress ticks never returns a     *)
(* state that mixes the fields of two updates.                             *)
(***************************************************************************)
\* The dict of one assignment to progress_state[user_id], by the keys kept.
C26_Dict(type, phase, current, total, imported_count, updated_count) ==
  [type |-> type, phase |-> phase, current |-> current, total |-> total,
   imported_count |-> imported_count, updated_count |-> updated_count]

\* What the assignments write: 'start', a tick of the import loop, the
\* change of phase, a tick of the enrichment loop, 'complete', 'error'.
C26_Written ==
  LET N == 0..MaxRows
  IN  {C26_Dict("start", "preprocessing", 0, t, 0, 0) : t \in N \ {0}}
      \cup {d \in {C26_Dict("progress", "import", c, t, 0, 0) : c \in N \ {0}, t \in N \ {0}} :
              (d.current - 1) % 10 = 0 /\ d.current <= d.total}
      \cup {C26_Dict("progress", "price_update", 0, t, 0, 0) : t \in N \ {0}}
      \cup {d \in {C26_Dict("progress", "price_update", c, t, 0, 0) : c \in N \ {0}, t \in N} :
              d.current <= d.total}
      \cup {d \in {C26_Dict("complete", "", 0, t, m, n) : t \in N \ {0}, m \in N, n \in N} :
              d.updated_count <= d.imported_count /\ d.imported_count <= d.total}
      \cup {C26_Dict("error", "", 0, 0, 0, 0)}

C26_PollReturnsOneUpdate ==
  response.op = "progress_status" =>
    (response.latest_progress = NoProgress \/ response.latest_progress \in C26_Written)

\* A poll returned the tick of one thread's enrichment loop after another
\* thread of the same owner had written its 'complete'.
C26_Witness ==
  /\ response.op = "progress_status"
  /\ response.latest_progress.type = "progress"
  /\ response.latest_progress.phase = "price_update"
  /\ response.latest_progress.current > 0
  /\ \E j, k \in JobIds :
       /\ j # k
       /\ jobs[j].user_id = response.user_id /\ jobs[j].pc = "enrich" /\ jobs[j].i > 0
       /\ jobs[k].pc = "done"

(***************************************************************************)
(* C27: the refresh of missing metadata processes only records of the      *)
(* calling owner that have an empty enrichment field (rarity, colors, mana *)
(* cost or type line), at most 200 of them, and never leaves out an        *)
(* eligible record in favour of one with a lower total value.              *)
(***************************************************************************)
\* The step in which update_prices makes its selection for the job in slot j.
C27_Selects(j) ==
  /\ jobs[j].pc = "idle"
  /\ jobs'[j].kind \in {"update_prices", "app_update_prices"}

\* The records selected: working_app.py keeps their ids, app.py the rows.
C27_Selected(j) ==
  IF jobs'[j].kind = "update_prices"
    THEN {c \in cards : c.id \in jobs'[j].card_ids}
    ELSE Range(jobs'[j].cards)

C27_Eligible(u) == {c \in cards : c.user_id = u /\ MissingMetadata(c)}

C27_Selection(j) ==
  C27_Selects(j) =>
    /\ \A c \in C27_Selected(j) : c.user_id = jobs'[j].user_id /\ MissingMetadata(c)
    /\ Cardinality(C27_Selected(j)) <= 200
    /\ \A e \in C27_Eligible(jobs'[j].user_id) :
         e \notin C27_Selected(j) =>
           \A c \in C27_Selected(j) : c.total_value >= e.total_value

C27_RefreshMissingSelection == [][\A j \in JobIds : C27_Selection(j)]_vars

(***************************************************************************)
(* C28: while a background job of an owner is running (triggered and not   *)
(* yet finished with 'complete' or 'error'), a poll for the owner returns  *)
(* active = true, also when several jobs of the owner overlap and one of   *)
(* them finishes before the others.                                        *)
(***************************************************************************)
C28_JobRunning(j) == Running(j) /\ jobs[j].pc # "cleanup"

C28_Poll(u) ==
  (progress_status(u) /\ \E j \in JobIds : C28_JobRunning(j) /\ jobs[j].user_id = u) =>
    response'.active

C28_ActiveWhileRunning == [][\A u \in Owners : C28_Poll(u)]_vars

(***************************************************************************)
(* C29: when the lookup for a record fails during enrichment (the client   *)
(* returns its zero or empty result), the record's current price and total *)
(* value are set to 0 and its metadata fields to empty, in place of any    *)
(* values stored before, and the record is counted in the updated count.   *)
(***************************************************************************)
C29_FailedLookups == {EmptyDict, ZeroResult}

C29_Zeroed(c) ==
  /\ c.current_price = 0 /\ c.total_value = 0
  /\ c.rarity = "" /\ c.colors = "" /\ c.mana_cost = "" /\ c.card_type = ""

C29_Iteration(j, card_data) ==
  update_card(j, card_data, FALSE) =>
    /\ \A c \in cards' : c.id = Head(jobs[j].cards).id => C29_Zeroed(c)
    /\ \E c \in cards' : c.id = Head(jobs[j].cards).id
    /\ jobs'[j].updated_count = jobs[j].updated_count + 1

C29_FailedLookupZeroes ==
  [][\A j \in JobIds, card_data \in C29_FailedLookups : C29_Iteration(j, card_data)]_vars

\* The record that held a price of 100 and the rarity "Common" is zeroed
\* and the job has counted it.
C29_Witness ==
  /\ \E c \in cards : c.id = 1 /\ C29_Zeroed(c) /\ c.quantity = 1 /\ c.purchase_price = 100
  /\ EnrichmentCard(1).current_price = 100 /\ EnrichmentCard(1).rarity = "Common"
  /\ \E j \in JobIds : jobs[j].kind = "enrichment" /\ jobs[j].i = 1 /\ jobs[j].updated_count = 1

(***************************************************************************)
(* C30: the WUBRG reformatting is idempotent: format_colors_wubrg applied  *)
(* to its own output returns that output, so a second run of               *)
(* update_color_display changes no record.                                 *)
(***************************************************************************)
C30_Idempotent ==
  (call.fn = "update_color_display" /\ call.ret # <<>>) =>
    /\ format_colors_wubrg(call.ret[1]) = call.ret[1]
    /\ update_color_display(call.ret[1]) = call.ret[1]

====
